---- MODULE Spec2Model ----
(***************************************************************************)
(* State-machine model of the reconciliation and change-classification    *)
(* engine of yandexmaps_monitor: snapshot diffing (branch-utils.ts),       *)
(* change categorisation and aggregation (analyze-changes.ts) and address  *)
(* matching (match-addresses main loop).                                   *)
(*                                                                         *)
(* Text is modelled as a sequence of one-character strings, so that        *)
(* toLowerCase and includes are computed rather than assumed.  Cyrillic    *)
(* literals of the source are written in Latin transliteration.            *)
(***************************************************************************)
EXTENDS Integers, Sequences, FiniteSets, TLC

VARIABLES
    previous,       \* compareBranchLists: the previous snapshot
    current,        \* compareBranchLists: the current branch list
    diffResult,     \* compareBranchLists: the returned {added, removed}
    changeType,     \* getCategoryForChangeType: the title of a change entry
    category,       \* getCategoryForChangeType: the returned category key
    branches,       \* analyzeChanges: the branch list read from branches.json
    now,            \* analyzeChanges: new Date(), in minutes since 01-01-1970
    stats,          \* analyzeChanges: the returned ChangeStats
    jsonAddress,    \* match-addresses: the canonical address j of the loop
    xmlAddresses,   \* match-addresses: the candidate addresses
    ratings,        \* match-addresses: similarity of j to each candidate, in 1/1000
    matched,        \* match-addresses: what the loop body decided for j
    xmlCompany,     \* runOnce: the company record c read from the XML feed
    candidateHours, \* compareSchedules: {text, avail} of the picked candidate
    toleranceMin,   \* compareSchedules: env.TIME_TOLERANCE_MINUTES
    xmlSched,       \* normalizeXmlWorkingTime: the returned Schedule
    res,            \* compareSchedules: the returned CompareResult
    script,         \* which entry point runs: "runOnce" or "checkRecent"
    tasks,          \* the records mapped to pool tasks: companies or branches
    taskState,      \* per task: "queued", "lookup", "saving" or "done"
    outcome,        \* per task: what the awaited lookup gave, <<>> before
    diffs,          \* runOnce: the discrepancy list
    concurrency,    \* the size of the pLimit pool
    isShuttingDown, \* check-recent-changes: the termination flag
    rawAddress,     \* the raw address string given to normalize
    sLocal,         \* normalize: its local s
    stepNo,         \* normalize: the next statement, an index of Steps
    normalized,     \* normalize(rawAddress)
    normalizedAgain, \* normalize(normalized)
    candidates,     \* pickBest: the candidates returned by searchCandidates
    pickedBest,     \* pickBest: what it returned, <<>> for undefined
    memBranches,    \* checkAllRecentChanges: the array branches in memory
    branchesFile,   \* the content of data/branches.json
    writes,         \* per task: the text given to fs.writeFile, <<>> when none is in flight
    report,         \* checkAllRecentChanges: processed, withRecentChanges and changedBranches
    mapping,        \* runOnce: map, companyId -> id on the maps
    cacheFile,      \* the content of the file env.CACHE_JSON
    authValidated,  \* ensureYandexAuth: the module flag authValidated
    authEnsuringPromise, \* the procedure authEnsuringPromise refers to, 0 for null
    procs,          \* the session check/login procedures started so far
    calls,          \* the calls of ensureYandexAuth made so far
    forceReauth,    \* process.env.FORCE_REAUTH === "true"
    browser,        \* the module variable browser: the launch it holds, 0 for null
    context,        \* the module variable context: the browser it belongs to, 0 for null
    live,           \* the launched browsers on which close() was not called
    pages,          \* the calls of getContext, each with its stage and what it returned
    closing,        \* closeBrowser: what it awaits, and on which browser
    prefixLength,   \* prefix.length of the call sendChunks(prefix, body)
    rest,           \* the local rest of sendChunks: the text not yet put into a chunk
    chunks,         \* the local chunks of sendChunks
    sent,           \* the lengths of the messages passed to sendMessage, in order
    pc              \* "input" before the modelled function is called, "done" after

diffVars == <<previous, current, diffResult>>
categoryVars == <<changeType, category>>
analyzeVars == <<branches, now, stats>>
matchVars == <<jsonAddress, xmlAddresses, ratings, matched>>
scheduleVars == <<xmlCompany, candidateHours, toleranceMin, xmlSched, res>>
runVars == <<script, tasks, taskState, outcome, diffs, concurrency, isShuttingDown>>
normalizeVars == <<rawAddress, sLocal, stepNo, normalized, normalizedAgain>>
pickVars == <<candidates, pickedBest>>
checkVars == <<memBranches, branchesFile, writes, report>>
cacheVars == <<mapping, cacheFile>>
authVars == <<authValidated, authEnsuringPromise, procs, calls, forceReauth>>
browserVars == <<browser, context, live, pages, closing>>
chunkVars == <<prefixLength, rest, chunks, sent>>
vars == <<previous, current, diffResult, changeType, category,
          branches, now, stats,
          jsonAddress, xmlAddresses, ratings, matched,
          xmlCompany, candidateHours, toleranceMin, xmlSched, res,
          script, tasks, taskState, outcome, diffs, concurrency, isShuttingDown,
          rawAddress, sLocal, stepNo, normalized, normalizedAgain,
          candidates, pickedBest,
          memBranches, branchesFile, writes, report,
          mapping, cacheFile,
          authValidated, authEnsuringPromise, procs, calls, forceReauth,
          browser, context, live, pages, closing,
          prefixLength, rest, chunks, sent, pc>>

\* The parts of the state a specification does not exercise stay at rest.
DiffIdle ==
    /\ previous = <<>>
    /\ current = <<>>
    /\ diffResult = [added |-> <<>>, removed |-> <<>>]

CategoryIdle ==
    /\ changeType = <<>>
    /\ category = "other"

AnalyzeIdle ==
    /\ branches = <<>>
    /\ now = 0
    /\ stats = <<>>

NoMatch == [threw |-> FALSE, isMatch |-> FALSE, bestIndex |-> 0, bestScore |-> 0]

MatchIdle ==
    /\ jsonAddress = [street |-> <<>>, house |-> <<>>]
    /\ xmlAddresses = <<>>
    /\ ratings = <<>>
    /\ matched = NoMatch

NoSchedule == [is24x7 |-> FALSE, byDay |-> <<>>]

NoResult == [ok |-> TRUE, reasons |-> <<>>, targetText |-> <<>>]

ScheduleIdle ==
    /\ xmlCompany = [companyId |-> <<>>]
    /\ candidateHours = [avail |-> <<>>]
    /\ toleranceMin = 0
    /\ xmlSched = NoSchedule
    /\ res = NoResult

RunIdle ==
    /\ script = "none"
    /\ tasks = <<>>
    /\ taskState = <<>>
    /\ outcome = <<>>
    /\ diffs = <<>>
    /\ concurrency = 0
    /\ isShuttingDown = FALSE

NormalizeIdle ==
    /\ rawAddress = <<>>
    /\ sLocal = <<>>
    /\ stepNo = 0
    /\ normalized = <<>>
    /\ normalizedAgain = <<>>

PickIdle ==
    /\ candidates = <<>>
    /\ pickedBest = <<>>

NoReport == [processed |-> 0, withRecentChanges |-> 0, changedBranches |-> <<>>]

CheckIdle ==
    /\ memBranches = <<>>
    /\ branchesFile = <<>>
    /\ writes = <<>>
    /\ report = NoReport

CacheIdle ==
    /\ mapping = <<>>
    /\ cacheFile = <<>>

AuthIdle ==
    /\ authValidated = FALSE
    /\ authEnsuringPromise = 0
    /\ procs = <<>>
    /\ calls = <<>>
    /\ forceReauth = FALSE

NotClosing == [stage |-> "idle", id |-> 0]

BrowserIdle ==
    /\ browser = 0
    /\ context = 0
    /\ live = {}
    /\ pages = <<>>
    /\ closing = NotClosing

ChunksIdle ==
    /\ prefixLength = 0
    /\ rest = <<>>
    /\ chunks = <<>>
    /\ sent = <<>>

-----------------------------------------------------------------------------
(* Text helpers                                                            *)

UpperChars == <<"A","B","C","D","E","F","G","H","I","J","K","L","M",
                "N","O","P","Q","R","S","T","U","V","W","X","Y","Z">>

LowerChars == <<"a","b","c","d","e","f","g","h","i","j","k","l","m",
                "n","o","p","q","r","s","t","u","v","w","x","y","z">>

\* String.prototype.toLowerCase on one character.
LowerChar(c) ==
    IF \E i \in 1..Len(UpperChars) : UpperChars[i] = c
    THEN LowerChars[CHOOSE i \in 1..Len(UpperChars) : UpperChars[i] = c]
    ELSE c

\* String.prototype.toLowerCase.
ToLowerCase(s) == [i \in 1..Len(s) |-> LowerChar(s[i])]

\* White space (\s) of the texts of the model: the space and the tab.
IsSpace(c) == c \in {" ", "tab"}

\* String.prototype.includes: t occurs in s as a contiguous substring.
Includes(s, t) ==
    \E off \in 0..(Len(s) - Len(t)) :
        \A i \in 1..Len(t) : s[off + i] = t[i]

-----------------------------------------------------------------------------
(* SnapshotDiffer: branch-utils.ts                                         *)

MaxPrevious == 2
MaxCurrent == 2

\* PUBLISHED_STATUSES = ["Опубликовано", "published", "active"]
PUBLISHED_STATUSES ==
    << <<"O","p","u","b","l","i","k","o","v","a","n","o">>,
       <<"p","u","b","l","i","s","h","e","d">>,
       <<"a","c","t","i","v","e">> >>

\* Status texts a scraped branch may carry (the scraper stores undefined
\* instead of an empty text).
StatusValues ==
    { <<"O","p","u","b","l","i","k","o","v","a","n","o">>,
      <<"A","C","T","I","V","E">>,
      <<"Z","a","k","r","y","t">>,
      <<"i","n","a","c","t","i","v","e">> }

CurrentIds == {<<>>, <<"1">>, <<"2">>}
SnapshotIds == {<<"1">>, <<"2">>, <<"3">>}

\* An optional field (id?, status?) that is undefined is a field the record
\* does not have.
BranchLike ==
    [id : CurrentIds, status : StatusValues] \cup [id : CurrentIds]
        \cup { [status |-> PUBLISHED_STATUSES[1]] }
BranchSnapshot == [id : SnapshotIds]

SeqUpTo(S, n) == UNION { [1..k -> S] : k \in 0..n }

\* JavaScript truthiness of the optional text field f of record r.
Truthy(r, f) == f \in DOMAIN r /\ r[f] # <<>>

\* Mutant: the comparison without toLowerCase.
isPublishedNoLowerCase(branch) ==
    IF ~Truthy(branch, "status") THEN TRUE
    ELSE \E k \in 1..Len(PUBLISHED_STATUSES) :
            Includes(branch.status, PUBLISHED_STATUSES[k])

isPublished(branch) ==
    IF ~Truthy(branch, "status") THEN TRUE
    ELSE \E k \in 1..Len(PUBLISHED_STATUSES) :
            Includes(ToLowerCase(branch.status), ToLowerCase(PUBLISHED_STATUSES[k]))

IdsOf(seq) == { seq[i].id : i \in 1..Len(seq) }

\* Mutant: added = current.filter((b) => b.id), neither the published filter
\* nor the previous-id test.
compareBranchListsAddedAllCurrent(prev, cur) ==
    LET KeepCur(b) == Truthy(b, "id") /\ isPublished(b)
        currentPublished == SelectSeq(cur, KeepCur)
        currentIds == IdsOf(currentPublished)
        KeepAdded(b) == Truthy(b, "id")
        KeepRemoved(b) == b.id \notin currentIds
    IN  [added |-> SelectSeq(cur, KeepAdded),
         removed |-> SelectSeq(prev, KeepRemoved)]

\* Mutant: currentIds built from added instead of currentPublished.
compareBranchListsRemovedAgainstAdded(prev, cur) ==
    LET previousIds == IdsOf(prev)
        KeepCur(b) == Truthy(b, "id") /\ isPublished(b)
        currentPublished == SelectSeq(cur, KeepCur)
        KeepAdded(b) == Truthy(b, "id") /\ b.id \notin previousIds
        added == SelectSeq(currentPublished, KeepAdded)
        KeepRemoved(b) == b.id \notin IdsOf(added)
    IN  [added |-> added,
         removed |-> SelectSeq(prev, KeepRemoved)]

compareBranchLists(prev, cur) ==
    LET previousIds == IdsOf(prev)
        KeepCur(b) == Truthy(b, "id") /\ isPublished(b)
        currentPublished == SelectSeq(cur, KeepCur)
        currentIds == IdsOf(currentPublished)
        KeepAdded(b) == Truthy(b, "id") /\ b.id \notin previousIds
        KeepRemoved(b) == b.id \notin currentIds
    IN  [added |-> SelectSeq(currentPublished, KeepAdded),
         removed |-> SelectSeq(prev, KeepRemoved)]

InitDiff ==
    /\ previous \in SeqUpTo(BranchSnapshot, MaxPrevious)
    /\ current \in SeqUpTo(BranchLike, MaxCurrent)
    /\ diffResult = [added |-> <<>>, removed |-> <<>>]
    /\ CategoryIdle
    /\ AnalyzeIdle
    /\ MatchIdle
    /\ ScheduleIdle
    /\ RunIdle
    /\ NormalizeIdle
    /\ PickIdle
    /\ CheckIdle
    /\ CacheIdle
    /\ AuthIdle
    /\ BrowserIdle
    /\ ChunksIdle
    /\ pc = "input"

\* checkAllRecentChanges calls compareBranchLists(previousSnapshot, branches).
CompareBranchLists ==
    /\ pc = "input"
    /\ diffResult' = compareBranchLists(previous, current)
    /\ pc' = "done"
    /\ UNCHANGED <<previous, current, categoryVars, analyzeVars, matchVars,
                   scheduleVars, runVars, normalizeVars, pickVars,
                   checkVars, cacheVars, authVars, browserVars,
                   chunkVars>>

NextDiff == CompareBranchLists

SpecDiff == InitDiff /\ [][NextDiff]_vars

\* C3: after compareBranchLists, for every previous snapshot and current
\* list, no id occurs both in added and in removed.
DiffAddedRemovedDisjoint ==
    pc = "done" => IdsOf(diffResult.added) \cap IdsOf(diffResult.removed) = {}

\* C3 witness: a diff with both an added and a removed record, from a
\* current list that also holds a record without id and a non-published one.
DiffAddedAndRemovedWitness ==
    /\ pc = "done"
    /\ diffResult.added # <<>>
    /\ diffResult.removed # <<>>
    /\ \E i \in 1..Len(current) :
          Truthy(current[i], "id") /\ ~isPublished(current[i])

\* The claim's wording of "published": the status is absent, or some
\* allow-listed text occurs in it when letter case is ignored.
StatusContainsIgnoringCase(status, word) ==
    \E off \in 0..(Len(status) - Len(word)) :
        \A i \in 1..Len(word) : LowerChar(status[off + i]) = LowerChar(word[i])

StatedPublished(b) ==
    \/ "status" \notin DOMAIN b
    \/ \E k \in 1..Len(PUBLISHED_STATUSES) :
          StatusContainsIgnoringCase(b.status, PUBLISHED_STATUSES[k])

StatedEligible(b) == "id" \in DOMAIN b /\ b.id # <<>> /\ StatedPublished(b)

StatedAdded(b) ==
    StatedEligible(b) /\ \A i \in 1..Len(previous) : previous[i].id # b.id

StatedRemoved(p) ==
    \A i \in 1..Len(current) : StatedEligible(current[i]) => current[i].id # p.id

SameIdentities ==
    /\ \A i \in 1..Len(current) : StatedEligible(current[i])
    /\ \A i \in 1..Len(current) : \E k \in 1..Len(previous) :
          previous[k].id = current[i].id
    /\ \A k \in 1..Len(previous) : \E i \in 1..Len(current) :
          previous[k].id = current[i].id

\* C5: diffing a snapshot against a current list of the same identities
\* yields added = [] and removed = [].
DiffSameIdentitiesEmpty ==
    (pc = "done" /\ SameIdentities) =>
        diffResult.added = <<>> /\ diffResult.removed = <<>>

\* C5 witness: a diff of two different locations against themselves.
DiffSameIdentitiesWitness ==
    /\ pc = "done"
    /\ SameIdentities
    /\ Cardinality(IdsOf(previous)) = 2
    /\ diffResult.added = <<>>
    /\ diffResult.removed = <<>>

\* ---------------------------------------------------------------------
\* Two runs of checkAllRecentChanges over the same branches.json: previous is
\* the content of the snapshot file, current the branch list.  Before the
\* first run there is no snapshot, or one that names a location now gone.

\* Mutant: the snapshot keeps every branch that has an id.
createSnapshotOfAll(bs) ==
    LET Keep(b) == Truthy(b, "id")
        kept == SelectSeq(bs, Keep)
    IN  [i \in 1..Len(kept) |-> [id |-> kept[i].id]]

\* createSnapshot(branches): the identities of the published branches that
\* have an id.
createSnapshot(bs) ==
    LET Keep(b) == Truthy(b, "id") /\ isPublished(b)
        kept == SelectSeq(bs, Keep)
    IN  [i \in 1..Len(kept) |-> [id |-> kept[i].id]]

InitSnapshot ==
    /\ previous \in {<<>>, <<[id |-> <<"3">>]>>}
    /\ current \in SeqUpTo(BranchLike, MaxCurrent)
    /\ diffResult = [added |-> <<>>, removed |-> <<>>]
    /\ CategoryIdle
    /\ AnalyzeIdle
    /\ MatchIdle
    /\ ScheduleIdle
    /\ RunIdle
    /\ NormalizeIdle
    /\ PickIdle
    /\ CheckIdle
    /\ CacheIdle
    /\ AuthIdle
    /\ BrowserIdle
    /\ ChunksIdle
    /\ pc = "first"

\* A run reads the branches and the previous snapshot and compares them.  It
\* returns at once when no published branch with an id has a changesUrl;
\* withUrl says whether the branches of the file carry one.
LoadAndCompare ==
    /\ pc \in {"first", "second"}
    /\ diffResult' = compareBranchLists(previous, current)
    /\ \E withUrl \in BOOLEAN :
          pc' = IF withUrl /\ createSnapshot(current) # <<>>
                THEN (IF pc = "first" THEN "firstChecked" ELSE "secondChecked")
                ELSE "returned"
    /\ UNCHANGED <<previous, current, categoryVars, analyzeVars, matchVars,
                   scheduleVars, runVars, normalizeVars, pickVars,
                   checkVars, cacheVars, authVars, browserVars,
                   chunkVars>>

\* After its checks the run saves the snapshot of its branches, whose ids and
\* statuses the checks do not touch.
SaveSnapshot ==
    /\ pc \in {"firstChecked", "secondChecked"}
    /\ previous' = createSnapshot(current)
    /\ pc' = IF pc = "firstChecked" THEN "second" ELSE "completed"
    /\ UNCHANGED <<current, diffResult, categoryVars, analyzeVars, matchVars,
                   scheduleVars, runVars, normalizeVars, pickVars,
                   checkVars, cacheVars, authVars, browserVars,
                   chunkVars>>

NextSnapshot == LoadAndCompare \/ SaveSnapshot

SpecSnapshot == InitSnapshot /\ [][NextSnapshot]_vars

\* C28: the second of two consecutive completed runs over an unchanged branch
\* list reports no added and no removed location: comparing the snapshot
\* createSnapshot made of a list with that list gives two empty lists.
SnapshotRoundTrip ==
    pc \in {"secondChecked", "completed"} =>
        /\ diffResult.added = <<>>
        /\ diffResult.removed = <<>>
        /\ compareBranchLists(createSnapshot(current), current)
              = [added |-> <<>>, removed |-> <<>>]

\* C28 witness: the second run completed over a list that holds a published
\* branch and a non-published branch with an id.
SnapshotRoundTripWitness ==
    /\ pc = "completed"
    /\ diffResult = [added |-> <<>>, removed |-> <<>>]
    /\ Len(previous) = 1
    /\ \E i \in 1..Len(current) :
          Truthy(current[i], "id") /\ ~isPublished(current[i])

-----------------------------------------------------------------------------
(* ChangeCategorizer: analyze-changes.ts                                   *)

MaxTitleWords == 3

\* Keywords tested by getCategoryForChangeType, in transliteration.
Kw ==
    [ koordinat |-> <<"k","o","o","r","d","i","n","a","t">>,
      vhod |-> <<"v","h","o","d">>,
      grafik |-> <<"g","r","a","f","i","k">>,
      raboty |-> <<"r","a","b","o","t","y">>,
      telefon |-> <<"t","e","l","e","f","o","n">>,
      email |-> <<"e","m","a","i","l">>,
      pocht |-> <<"p","o","ch","t">>,
      nazvan |-> <<"n","a","z","v","a","n">>,
      deyatelnost |-> <<"d","e","ya","t","e","l","soft","n","o","s","t">>,
      kategor |-> <<"k","a","t","e","g","o","r">>,
      rubrik |-> <<"r","u","b","r","i","k">>,
      uslug |-> <<"u","s","l","u","g">>,
      osobennost |-> <<"o","s","o","b","e","n","n","o","s","t">>,
      foto |-> <<"f","o","t","o">>,
      video |-> <<"v","i","d","e","o">>,
      logo |-> <<"l","o","g","o">>,
      oblozhk |-> <<"o","b","l","o","zh","k">>,
      status |-> <<"s","t","a","t","u","s">>,
      publikac |-> <<"p","u","b","l","i","k","a","ts">>,
      sajt |-> <<"s","a","j","t">>,
      ssylk |-> <<"s","s","y","l","k">>,
      adres |-> <<"a","d","r","e","s">>,
      opisan |-> <<"o","p","i","s","a","n">>,
      tekst |-> <<"t","e","k","s","t">>,
      cen |-> <<"ts","e","n">>,
      prajs |-> <<"p","r","a","j","s">> ]

\* keyof typeof CHANGE_CATEGORIES
CategoryKeys ==
    { "coordinates", "entrances", "schedule", "contacts", "naming",
      "activities", "services", "media", "status", "links", "address",
      "description", "prices", "other" }

\* Mutant: the schedule rule without the "deyatelnost" exclusion.
getCategoryForChangeTypeNoExclusion(title) ==
    LET lower == ToLowerCase(title)
    IN  IF Includes(lower, Kw.koordinat) THEN "coordinates"
        ELSE IF Includes(lower, Kw.vhod) THEN "entrances"
        ELSE IF Includes(lower, Kw.grafik) \/ Includes(lower, Kw.raboty)
             THEN "schedule"
        ELSE IF Includes(lower, Kw.telefon) \/ Includes(lower, Kw.email)
                \/ Includes(lower, Kw.pocht) THEN "contacts"
        ELSE IF Includes(lower, Kw.nazvan) THEN "naming"
        ELSE IF Includes(lower, Kw.deyatelnost) \/ Includes(lower, Kw.kategor)
                \/ Includes(lower, Kw.rubrik) THEN "activities"
        ELSE IF Includes(lower, Kw.uslug) \/ Includes(lower, Kw.osobennost)
             THEN "services"
        ELSE IF Includes(lower, Kw.foto) \/ Includes(lower, Kw.video)
                \/ Includes(lower, Kw.logo) \/ Includes(lower, Kw.oblozhk)
             THEN "media"
        ELSE IF Includes(lower, Kw.status) \/ Includes(lower, Kw.publikac)
             THEN "status"
        ELSE IF Includes(lower, Kw.sajt) \/ Includes(lower, Kw.ssylk) THEN "links"
        ELSE IF Includes(lower, Kw.adres) THEN "address"
        ELSE IF Includes(lower, Kw.opisan) \/ Includes(lower, Kw.tekst)
             THEN "description"
        ELSE IF Includes(lower, Kw.cen) \/ Includes(lower, Kw.prajs) THEN "prices"
        ELSE "other"

getCategoryForChangeType(title) ==
    LET lower == ToLowerCase(title)
    IN  IF Includes(lower, Kw.koordinat) THEN "coordinates"
        ELSE IF Includes(lower, Kw.vhod) THEN "entrances"
        ELSE IF Includes(lower, Kw.grafik)
                \/ (Includes(lower, Kw.raboty) /\ ~Includes(lower, Kw.deyatelnost))
             THEN "schedule"
        ELSE IF Includes(lower, Kw.telefon) \/ Includes(lower, Kw.email)
                \/ Includes(lower, Kw.pocht) THEN "contacts"
        ELSE IF Includes(lower, Kw.nazvan) THEN "naming"
        ELSE IF Includes(lower, Kw.deyatelnost) \/ Includes(lower, Kw.kategor)
                \/ Includes(lower, Kw.rubrik) THEN "activities"
        ELSE IF Includes(lower, Kw.uslug) \/ Includes(lower, Kw.osobennost)
             THEN "services"
        ELSE IF Includes(lower, Kw.foto) \/ Includes(lower, Kw.video)
                \/ Includes(lower, Kw.logo) \/ Includes(lower, Kw.oblozhk)
             THEN "media"
        ELSE IF Includes(lower, Kw.status) \/ Includes(lower, Kw.publikac)
             THEN "status"
        ELSE IF Includes(lower, Kw.sajt) \/ Includes(lower, Kw.ssylk) THEN "links"
        ELSE IF Includes(lower, Kw.adres) THEN "address"
        ELSE IF Includes(lower, Kw.opisan) \/ Includes(lower, Kw.tekst)
             THEN "description"
        ELSE IF Includes(lower, Kw.cen) \/ Includes(lower, Kw.prajs) THEN "prices"
        ELSE "other"

\* Words a change title is made of: a neutral word, and for each keyword a
\* word form that holds it ("grafika", "deyatelnosti", ...), one in capitals.
TitleWords == <<
    <<"I","z","m","e","n","e","n","i","e">>,
    <<"k","o","o","r","d","i","n","a","t">>,
    <<"v","h","o","d","a">>,
    <<"g","r","a","f","i","k","a">>,
    <<"G","R","A","F","I","K">>,
    <<"r","a","b","o","t","y">>,
    <<"t","e","l","e","f","o","n","a">>,
    <<"e","m","a","i","l">>,
    <<"p","o","ch","t","y">>,
    <<"n","a","z","v","a","n","i","ya">>,
    <<"d","e","ya","t","e","l","soft","n","o","s","t","i">>,
    <<"k","a","t","e","g","o","r","i","i">>,
    <<"r","u","b","r","i","k","i">>,
    <<"u","s","l","u","g">>,
    <<"o","s","o","b","e","n","n","o","s","t","e","j">>,
    <<"f","o","t","o">>,
    <<"v","i","d","e","o">>,
    <<"l","o","g","o","t","i","p","a">>,
    <<"o","b","l","o","zh","k","i">>,
    <<"s","t","a","t","u","s","a">>,
    <<"p","u","b","l","i","k","a","ts","i","i">>,
    <<"s","a","j","t","a">>,
    <<"s","s","y","l","k","i">>,
    <<"a","d","r","e","s","a">>,
    <<"o","p","i","s","a","n","i","ya">>,
    <<"t","e","k","s","t","a">>,
    <<"ts","e","n","y">>,
    <<"p","r","a","j","s","a">>
>>

\* The title made of the words with the given indices, separated by spaces.
RECURSIVE JoinWords(_, _)
JoinWords(picked, i) ==
    IF i > Len(TitleWords) THEN <<>>
    ELSE IF i \notin picked THEN JoinWords(picked, i + 1)
    ELSE IF \E k \in picked : k > i
         THEN TitleWords[i] \o <<" ">> \o JoinWords(picked, i + 1)
         ELSE TitleWords[i]

\* The titles of at most n words.
TitlesUpTo(n) ==
    { JoinWords({ f[i] : i \in DOMAIN f }, 1) :
        f \in UNION { [1..k -> 1..Len(TitleWords)] : k \in 0..n } }

InitCategory ==
    /\ changeType \in TitlesUpTo(MaxTitleWords)
    /\ category = "other"
    /\ DiffIdle
    /\ AnalyzeIdle
    /\ MatchIdle
    /\ ScheduleIdle
    /\ RunIdle
    /\ NormalizeIdle
    /\ PickIdle
    /\ CheckIdle
    /\ CacheIdle
    /\ AuthIdle
    /\ BrowserIdle
    /\ ChunksIdle
    /\ pc = "input"

\* analyzeChanges calls getCategoryForChangeType(change.title) per entry.
GetCategoryForChangeType ==
    /\ pc = "input"
    /\ category' = getCategoryForChangeType(changeType)
    /\ pc' = "done"
    /\ UNCHANGED <<changeType, diffVars, analyzeVars, matchVars, scheduleVars,
                   runVars, normalizeVars, pickVars, checkVars,
                   cacheVars, authVars, browserVars, chunkVars>>

NextCategory == GetCategoryForChangeType

SpecCategory == InitCategory /\ [][NextCategory]_vars

\* The claim's wording of "the title contains the keyword": the keyword
\* occurs in the title when letter case is ignored.
TitleContains(word) == StatusContainsIgnoringCase(changeType, word)

HasScheduleKeyword == TitleContains(Kw.grafik) \/ TitleContains(Kw.raboty)

HasActivityKeyword ==
    TitleContains(Kw.deyatelnost) \/ TitleContains(Kw.kategor) \/ TitleContains(Kw.rubrik)

HasEarlierKeyword == TitleContains(Kw.koordinat) \/ TitleContains(Kw.vhod)

\* C2 as stated: every title with a schedule keyword and an activity keyword,
\* and without a coordinates/entrances keyword, is categorised as schedule.
ScheduleBeatsActivityAsStated ==
    (pc = "done" /\ HasScheduleKeyword /\ HasActivityKeyword /\ ~HasEarlierKeyword)
        => category = "schedule"

\* C2 amended: without a coordinates/entrances keyword, a title with "grafik"
\* and an activity keyword, or with "raboty" and an activity keyword other
\* than "deyatelnost", is categorised as schedule; a title with "raboty" and
\* "deyatelnost" but without "grafik" is not: it is contacts, naming or
\* activities, by the order of the later rules.
ScheduleBeatsActivityAmended ==
    (pc = "done" /\ HasActivityKeyword /\ ~HasEarlierKeyword) =>
        /\ TitleContains(Kw.grafik) => category = "schedule"
        /\ (TitleContains(Kw.raboty) /\ ~TitleContains(Kw.deyatelnost))
              => category = "schedule"
        /\ (TitleContains(Kw.raboty) /\ TitleContains(Kw.deyatelnost)
                /\ ~TitleContains(Kw.grafik))
              => /\ category \in {"contacts", "naming", "activities"}
                 /\ category = "contacts" <=>
                        (TitleContains(Kw.telefon) \/ TitleContains(Kw.email)
                            \/ TitleContains(Kw.pocht))
                 /\ category = "naming" <=>
                        (TitleContains(Kw.nazvan) /\ ~TitleContains(Kw.telefon)
                            /\ ~TitleContains(Kw.email) /\ ~TitleContains(Kw.pocht))

\* C2 witness: a title with "raboty", "deyatelnost" and a third keyword, and
\* no "grafik", has been categorised as activities.
ScheduleActivityOverlapWitness ==
    /\ pc = "done"
    /\ TitleContains(Kw.raboty)
    /\ TitleContains(Kw.deyatelnost)
    /\ TitleContains(Kw.adres)
    /\ category = "activities"
-----------------------------------------------------------------------------
(* ChangeAggregator: analyze-changes.ts                                    *)

Digits == <<"0","1","2","3","4","5","6","7","8","9">>

IsDigit(c) == \E d \in 1..Len(Digits) : Digits[d] = c

DigitValue(c) == (CHOOSE d \in 1..Len(Digits) : Digits[d] = c) - 1

\* parseInt of the decimal digits s[from..to].
RECURSIVE ParseInt(_, _, _)
ParseInt(s, from, to) ==
    IF to < from THEN 0
    ELSE 10 * ParseInt(s, from, to - 1) + DigitValue(s[to])

AllDigits(s, from, to) ==
    to <= Len(s) /\ \A i \in from..to : IsDigit(s[i])

CharAt(s, i, c) == i <= Len(s) /\ s[i] = c

\* The number of white-space characters of s from position i on (\s*).
RECURSIVE SpacesFrom(_, _)
SpacesFrom(s, i) ==
    IF i <= Len(s) /\ IsSpace(s[i]) THEN 1 + SpacesFrom(s, i + 1) ELSE 0

\* /(\d{2})-(\d{2})-(\d{4})\s*·\s*(\d{2}):(\d{2})/ matches s at offset off.
DateRegexMatchesAt(s, off) ==
    /\ AllDigits(s, off + 1, off + 2)
    /\ CharAt(s, off + 3, "-")
    /\ AllDigits(s, off + 4, off + 5)
    /\ CharAt(s, off + 6, "-")
    /\ AllDigits(s, off + 7, off + 10)
    /\ LET dot == off + 11 + SpacesFrom(s, off + 11)
           time == dot + 1 + SpacesFrom(s, dot + 1)
       IN  /\ CharAt(s, dot, "middot")
           /\ AllDigits(s, time, time + 1)
           /\ CharAt(s, time + 2, ":")
           /\ AllDigits(s, time + 3, time + 4)

\* Days from 01-01-1970 to the first day of the given month (0-based
\* monthIndex, any integer: the Date constructor carries it into the year).
DaysBeforeMonth(year, monthIndex) ==
    LET months == year * 12 + monthIndex
        y0 == months \div 12
        m == (months % 12) + 1
        y == IF m <= 2 THEN y0 - 1 ELSE y0
        era == y \div 400
        yoe == y - era * 400
        mp == IF m > 2 THEN m - 3 ELSE m + 9
        doy == (153 * mp + 2) \div 5
        doe == yoe * 365 + (yoe \div 4) - (yoe \div 100) + doy
    IN  era * 146097 + doe - 719468

\* new Date(year, monthIndex, day, hour, minute).getTime(), in minutes of
\* local time; a year 0..99 means 1900 + year.
DateValue(year, monthIndex, day, hour, minute) ==
    LET fullYear == IF year <= 99 THEN 1900 + year ELSE year
    IN  ((DaysBeforeMonth(fullYear, monthIndex) + day - 1) * 24 + hour) * 60 + minute

\* The result of a failed parse (null).
NullDate == [ok |-> FALSE, time |-> 0]

\* The first offset from off on at which the pattern matches s, -1 when it
\* matches nowhere (String.prototype.match returns the leftmost match).
RECURSIVE FirstMatch(_, _)
FirstMatch(s, off) ==
    IF off > Len(s) THEN -1
    ELSE IF DateRegexMatchesAt(s, off) THEN off
    ELSE FirstMatch(s, off + 1)

\* The position of the separator of the match at offset off, and the position
\* of the hour group that follows a separator at position dot.
DotAt(s, off) == off + 11 + SpacesFrom(s, off + 11)
TimeAt(s, dot) == dot + 1 + SpacesFrom(s, dot + 1)

\* new Date(parseInt(year), parseInt(month) - 1, parseInt(day),
\*          parseInt(hour), parseInt(minute)) of the groups of the match at
\* offset off whose hour group starts at position time.
DateOfMatch(s, off, time) ==
    [ ok |-> TRUE,
      time |-> DateValue(ParseInt(s, off + 7, off + 10),
                         ParseInt(s, off + 4, off + 5) - 1,
                         ParseInt(s, off + 1, off + 2),
                         ParseInt(s, time, time + 1),
                         ParseInt(s, time + 3, time + 4)) ]

DateAt(s, off) ==
    IF off < 0 THEN NullDate ELSE DateOfMatch(s, off, TimeAt(s, DotAt(s, off)))

parseChangeDate(dateStr) == DateAt(dateStr, FirstMatch(dateStr, 0))

MaxBranches == 2
MaxEntries == 3

\* if (!obj[key]) obj[key] = 0; obj[key]++
Bump(obj, key) ==
    IF key \in DOMAIN obj THEN [obj EXCEPT ![key] = @ + 1] ELSE obj @@ (key :> 1)

\* obj[key] of a counter object, 0 for a key it does not have.
CountOf(obj, key) == IF key \in DOMAIN obj THEN obj[key] ELSE 0

OneDayAgo(nowTime) == nowTime - 24 * 60
SevenDaysAgo(nowTime) == nowTime - 7 * 24 * 60
ThirtyDaysAgo(nowTime) == nowTime - 30 * 24 * 60

InLast24h(changeDate, nowTime) ==
    changeDate.ok /\ changeDate.time >= OneDayAgo(nowTime)

\* Mutant: the 7-day window as a bucket that excludes the last 24 hours.
InLast7dExclusive(changeDate, nowTime) ==
    /\ changeDate.ok
    /\ changeDate.time >= SevenDaysAgo(nowTime)
    /\ changeDate.time < OneDayAgo(nowTime)

InLast7d(changeDate, nowTime) ==
    changeDate.ok /\ changeDate.time >= SevenDaysAgo(nowTime)

InLast30d(changeDate, nowTime) ==
    changeDate.ok /\ changeDate.time >= ThirtyDaysAgo(nowTime)

\* const changes = branch.changesHistory || []
ChangesOf(branch) ==
    IF "changesHistory" \in DOMAIN branch THEN branch.changesHistory ELSE <<>>

\* const branchId = branch.id || branch.name || "unknown"
BranchIdOf(branch) ==
    IF Truthy(branch, "id") THEN branch.id
    ELSE IF Truthy(branch, "name") THEN branch.name
    ELSE <<"u","n","k","n","o","w","n">>

\* Mutant: stats.totalChanges++ instead of += changes.length.
CountedInTotalOnePerBranch(changes) == IF Len(changes) > 0 THEN 1 ELSE 0

\* Mutant: only the entries whose date parses are added to totalChanges.
CountedInTotalParsedOnly(changes) ==
    Cardinality({ k \in 1..Len(changes) : parseChangeDate(changes[k].date).ok })

\* stats.totalChanges += changes.length
CountedInTotal(changes) == Len(changes)

\* The body of the loop over the entries of one branch.
ProcessChange(acc, change, branchId, nowTime) ==
    LET changeDate == parseChangeDate(change.date)
        cat == getCategoryForChangeType(change.title)
        in24 == InLast24h(changeDate, nowTime)
        in7 == InLast7d(changeDate, nowTime)
        in30 == InLast30d(changeDate, nowTime)
        One(b) == IF b THEN 1 ELSE 0
    IN  [ stats |->
            [ acc.stats EXCEPT
                !.changesByType = Bump(@, change.title),
                !.changesByCategory[cat] =
                    [ @ EXCEPT
                        !.totalChanges = @ + 1,
                        !.changeTypes = Bump(@, change.title),
                        !.recentChanges24h = @ + One(in24),
                        !.recentChanges7d = @ + One(in7) ],
                !.changesLast24h = @ + One(in24),
                !.recentChangesByType24h =
                    IF in24 THEN Bump(@, change.title) ELSE @,
                !.changesLast7d = @ + One(in7),
                !.recentChangesByType7d =
                    IF in7 THEN Bump(@, change.title) ELSE @,
                !.changesLast30d = @ + One(in30) ],
          affected |-> [acc.affected EXCEPT ![cat] = @ \cup {branchId}],
          has24 |-> acc.has24 \/ in24,
          has7 |-> acc.has7 \/ in7 ]

RECURSIVE ProcessChanges(_, _, _, _, _)
ProcessChanges(acc, changes, k, branchId, nowTime) ==
    IF k > Len(changes) THEN acc
    ELSE ProcessChanges(ProcessChange(acc, changes[k], branchId, nowTime),
                        changes, k + 1, branchId, nowTime)

\* Mutant: hasRecentChange24h / hasRecentChange7d declared outside the loop
\* over the branches, so never reset.
ProcessBranchFlagsKept(acc, branch, nowTime) ==
    LET changes == ChangesOf(branch)
        start ==
            [ acc EXCEPT
                !.stats.branchesWithChanges =
                    IF Len(changes) > 0 THEN @ + 1 ELSE @,
                !.stats.branchesWithoutChanges =
                    IF Len(changes) > 0 THEN @ ELSE @ + 1,
                !.stats.totalChanges = @ + CountedInTotal(changes) ]
        after == ProcessChanges(start, changes, 1, BranchIdOf(branch), nowTime)
    IN  [ after EXCEPT
            !.stats.branchesWithRecentChanges24h =
                IF after.has24 THEN @ + 1 ELSE @,
            !.stats.branchesWithRecentChanges7d =
                IF after.has7 THEN @ + 1 ELSE @ ]

\* The body of the loop over the branches.
ProcessBranch(acc, branch, nowTime) ==
    LET changes == ChangesOf(branch)
        start ==
            [ acc EXCEPT
                !.stats.branchesWithChanges =
                    IF Len(changes) > 0 THEN @ + 1 ELSE @,
                !.stats.branchesWithoutChanges =
                    IF Len(changes) > 0 THEN @ ELSE @ + 1,
                !.stats.totalChanges = @ + CountedInTotal(changes),
                !.has24 = FALSE,
                !.has7 = FALSE ]
        after == ProcessChanges(start, changes, 1, BranchIdOf(branch), nowTime)
    IN  [ after EXCEPT
            !.stats.branchesWithRecentChanges24h =
                IF after.has24 THEN @ + 1 ELSE @,
            !.stats.branchesWithRecentChanges7d =
                IF after.has7 THEN @ + 1 ELSE @ ]

RECURSIVE ProcessBranches(_, _, _, _)
ProcessBranches(acc, list, i, nowTime) ==
    IF i > Len(list) THEN acc
    ELSE ProcessBranches(ProcessBranch(acc, list[i], nowTime), list, i + 1, nowTime)

\* The counters as initialised before the loops.
InitialStats(list) ==
    [ totalBranches |-> Len(list),
      branchesWithChanges |-> 0,
      branchesWithoutChanges |-> 0,
      totalChanges |-> 0,
      uniqueChangeTypes |-> 0,
      averageChangesPerBranch100 |-> 0,
      changesLast24h |-> 0,
      changesLast7d |-> 0,
      changesLast30d |-> 0,
      branchesWithRecentChanges24h |-> 0,
      branchesWithRecentChanges7d |-> 0,
      changesByType |-> <<>>,
      changesByCategory |->
          [ key \in CategoryKeys |->
              [ totalChanges |-> 0, branchesAffected |-> 0, changeTypes |-> <<>>,
                recentChanges24h |-> 0, recentChanges7d |-> 0 ] ],
      recentChangesByType24h |-> <<>>,
      recentChangesByType7d |-> <<>>,
      branchesAffectedByCategory |-> [ key \in CategoryKeys |-> 0 ] ]

\* analyzeChanges(branches) called at the instant nowTime.  The average is
\* kept in hundredths: Math.round(x * 100) / 100.
analyzeChanges(list, nowTime) ==
    LET looped ==
            ProcessBranches([ stats |-> InitialStats(list),
                              affected |-> [ key \in CategoryKeys |-> {} ],
                              has24 |-> FALSE, has7 |-> FALSE ],
                            list, 1, nowTime)
        st == looped.stats
    IN  [ st EXCEPT
            !.changesByCategory =
                [ key \in CategoryKeys |->
                    [ @[key] EXCEPT
                        !.branchesAffected = Cardinality(looped.affected[key]) ] ],
            !.branchesAffectedByCategory =
                [ key \in CategoryKeys |-> Cardinality(looped.affected[key]) ],
            !.uniqueChangeTypes = Cardinality(DOMAIN st.changesByType),
            !.averageChangesPerBranch100 =
                IF st.branchesWithChanges > 0
                THEN (2 * 100 * st.totalChanges + st.branchesWithChanges)
                        \div (2 * st.branchesWithChanges)
                ELSE 0 ]

\* Titles and dates of the change entries fed to the aggregator.
TitleGrafik == JoinWords({1, 4}, 1)
TitleOther == JoinWords({1}, 1)

\* "01-03-2026 <dot> 12:00", "23-02-2026<dot>12:00", "31-01-2026 <dot> 12:00",
\* and "01-03-2026 12:00", which lacks the separator and does not parse.
Date0103 ==
    <<"0","1","-","0","3","-","2","0","2","6"," ","middot"," ","1","2",":","0","0">>
Date2302 ==
    <<"2","3","-","0","2","-","2","0","2","6","middot","1","2",":","0","0">>
Date3101 ==
    <<"3","1","-","0","1","-","2","0","2","6"," ","middot"," ","1","2",":","0","0">>
DateMalformed ==
    <<"0","1","-","0","3","-","2","0","2","6"," ","1","2",":","0","0">>

\* The change entries a history is made of.
SimpleChange ==
    { [title |-> TitleGrafik, date |-> Date0103],
      [title |-> TitleOther, date |-> Date2302],
      [title |-> TitleOther, date |-> Date3101],
      [title |-> TitleGrafik, date |-> DateMalformed] }

\* The instants analyzeChanges may run at: 01-03-2026 11:00, when the first
\* date lies in the future; 02-03-2026 12:00, when the three dates lie
\* exactly on the three cut-offs; and one minute later.
NowChoices ==
    { DateValue(2026, 2, 1, 11, 0),
      DateValue(2026, 2, 2, 12, 0),
      DateValue(2026, 2, 2, 12, 1) }

BranchIdentities == { [id |-> <<"1">>], [id |-> <<"2">>] }

\* The number of entries of the first i branches of the list.
RECURSIVE EntriesUpTo(_, _)
EntriesUpTo(list, i) ==
    IF i = 0 THEN 0 ELSE Len(ChangesOf(list[i])) + EntriesUpTo(list, i - 1)

EntriesIn(list) == EntriesUpTo(list, Len(list))

InitAnalyze ==
    /\ branches = <<>>
    /\ now = 0
    /\ stats = <<>>
    /\ DiffIdle
    /\ CategoryIdle
    /\ MatchIdle
    /\ ScheduleIdle
    /\ RunIdle
    /\ NormalizeIdle
    /\ PickIdle
    /\ CheckIdle
    /\ CacheIdle
    /\ AuthIdle
    /\ BrowserIdle
    /\ ChunksIdle
    /\ pc = "input"

\* branches.json gains a branch (the scraper found one more location).
AddBranch ==
    /\ pc = "input"
    /\ Len(branches) < MaxBranches
    /\ \E b \in BranchIdentities : branches' = Append(branches, b)
    /\ UNCHANGED <<now, stats, pc, diffVars, categoryVars, matchVars,
                   scheduleVars, runVars, normalizeVars, pickVars,
                   checkVars, cacheVars, authVars, browserVars,
                   chunkVars>>

\* The change history of the last branch gains an entry.
AddChange ==
    /\ pc = "input"
    /\ Len(branches) > 0
    /\ EntriesIn(branches) < MaxEntries
    /\ \E c \in SimpleChange :
          LET last == branches[Len(branches)]
              history == Append(ChangesOf(last), c)
          IN  branches' =
                [branches EXCEPT ![Len(branches)] =
                    [id |-> last.id, changesHistory |-> history]]
    /\ UNCHANGED <<now, stats, pc, diffVars, categoryVars, matchVars,
                   scheduleVars, runVars, normalizeVars, pickVars,
                   checkVars, cacheVars, authVars, browserVars,
                   chunkVars>>

\* const stats = analyzeChanges(branches)
AnalyzeChanges ==
    /\ pc = "input"
    /\ \E t \in NowChoices :
          /\ now' = t
          /\ stats' = analyzeChanges(branches, t)
    /\ pc' = "done"
    /\ UNCHANGED <<branches, diffVars, categoryVars, matchVars, scheduleVars,
                   runVars, normalizeVars, pickVars, checkVars,
                   cacheVars, authVars, browserVars, chunkVars>>

NextAnalyze == AddBranch \/ AddChange \/ AnalyzeChanges

SpecAnalyze == InitAnalyze /\ [][NextAnalyze]_vars

\* C6: for every input, changesLast24h <= changesLast7d <= changesLast30d
\* <= totalChanges.
WindowMonotonicity ==
    pc = "done" =>
        /\ stats.changesLast24h <= stats.changesLast7d
        /\ stats.changesLast7d <= stats.changesLast30d
        /\ stats.changesLast30d <= stats.totalChanges

\* C6 witness: a result in which the four counters are all different.
WindowMonotonicityWitness ==
    /\ pc = "done"
    /\ stats.changesLast24h < stats.changesLast7d
    /\ stats.changesLast7d < stats.changesLast30d
    /\ stats.changesLast30d < stats.totalChanges

\* The date text holds no occurrence of the DD-MM-YYYY <dot> HH:MM pattern.
DoesNotParse(dateStr) ==
    \A off \in 0..Len(dateStr) : ~DateRegexMatchesAt(dateStr, off)

\* The branch list without entry k of branch i.
WithoutEntry(list, i, k) ==
    LET history == ChangesOf(list[i])
        others == SubSeq(history, 1, k - 1) \o SubSeq(history, k + 1, Len(history))
    IN  [list EXCEPT ![i] = [id |-> list[i].id, changesHistory |-> others]]

\* The statistics with differ from the statistics without in one entry of the
\* given title and category that belongs to the totals only.
DiffersInTotalsOnly(with, without, title, cat) ==
    /\ with.totalChanges = without.totalChanges + 1
    /\ CountOf(with.changesByType, title) = CountOf(without.changesByType, title) + 1
    /\ with.changesByCategory[cat].totalChanges
          = without.changesByCategory[cat].totalChanges + 1
    /\ with.changesLast24h = without.changesLast24h
    /\ with.changesLast7d = without.changesLast7d
    /\ with.changesLast30d = without.changesLast30d
    /\ with.recentChangesByType24h = without.recentChangesByType24h
    /\ with.recentChangesByType7d = without.recentChangesByType7d
    /\ \A key \in CategoryKeys :
          /\ with.changesByCategory[key].recentChanges24h
                = without.changesByCategory[key].recentChanges24h
          /\ with.changesByCategory[key].recentChanges7d
                = without.changesByCategory[key].recentChanges7d
    /\ with.branchesWithRecentChanges24h = without.branchesWithRecentChanges24h
    /\ with.branchesWithRecentChanges7d = without.branchesWithRecentChanges7d

\* Entry k of branch i, when its date does not parse, is in the totals only.
EntryInTotalsOnly(i, entry, k) ==
    DoesNotParse(entry.date) =>
        DiffersInTotalsOnly(stats, analyzeChanges(WithoutEntry(branches, i, k), now),
                            entry.title, getCategoryForChangeType(entry.title))

\* C7: an entry whose timestamp does not parse adds one to totalChanges, to
\* its by-type counter and to its category total, and adds nothing to the
\* 24h/7d/30d counters (global, per type, per category) nor to the branches
\* counted as recently changed: the statistics with the entry differ from
\* the statistics without it in exactly that way.
UnparseableEntryCountedOnlyInTotals ==
    pc = "done" =>
        \A i \in 1..Len(branches) : \A k \in 1..Len(ChangesOf(branches[i])) :
            EntryInTotalsOnly(i, ChangesOf(branches[i])[k], k)

\* C7 witness: a branch whose only entry does not parse has been analysed:
\* it is in the total and in no window.
UnparseableEntryWitness ==
    /\ pc = "done"
    /\ \E i \in 1..Len(branches) :
          /\ Len(ChangesOf(branches[i])) = 1
          /\ DoesNotParse(ChangesOf(branches[i])[1].date)
    /\ stats.totalChanges = 1
    /\ stats.changesLast30d = 0
    /\ stats.branchesWithRecentChanges7d = 0

\* Branch i has an entry whose parsed timestamp is not older than the given
\* number of minutes.
TouchedWithin(i, minutes) ==
    \E k \in 1..Len(ChangesOf(branches[i])) :
        LET parsed == parseChangeDate(ChangesOf(branches[i])[k].date)
        IN  parsed.ok /\ parsed.time >= now - minutes

\* C8 as stated: branchesWithRecentChanges24h (7d) is the number of distinct
\* locations with an entry in the window, also when an id occurs twice.
RecentBranchesDistinctAsStated ==
    pc = "done" =>
        /\ stats.branchesWithRecentChanges24h =
              Cardinality({ BranchIdOf(branches[i]) :
                              i \in { n \in 1..Len(branches) : TouchedWithin(n, 24 * 60) } })
        /\ stats.branchesWithRecentChanges7d =
              Cardinality({ BranchIdOf(branches[i]) :
                              i \in { n \in 1..Len(branches) : TouchedWithin(n, 7 * 24 * 60) } })

\* C8 amended: branchesWithRecentChanges24h (7d) is the number of records of
\* the input list with an entry in the window; a location id that occurs in
\* several records is counted once per record.
RecentBranchesPerRecord ==
    pc = "done" =>
        /\ stats.branchesWithRecentChanges24h =
              Cardinality({ n \in 1..Len(branches) : TouchedWithin(n, 24 * 60) })
        /\ stats.branchesWithRecentChanges7d =
              Cardinality({ n \in 1..Len(branches) : TouchedWithin(n, 7 * 24 * 60) })

\* C8 witness: two records of the same location id, each with an entry of
\* the last 24 hours, are counted as two.
RecentBranchesDuplicateIdWitness ==
    /\ pc = "done"
    /\ Len(branches) = 2
    /\ BranchIdOf(branches[1]) = BranchIdOf(branches[2])
    /\ TouchedWithin(1, 24 * 60)
    /\ TouchedWithin(2, 24 * 60)
    /\ stats.branchesWithRecentChanges24h = 2

\* The sum of changesByCategory[key].totalChanges over the given keys.
RECURSIVE CategoryTotalsSum(_)
CategoryTotalsSum(keys) ==
    IF keys = {} THEN 0
    ELSE LET key == CHOOSE x \in keys : TRUE
         IN  stats.changesByCategory[key].totalChanges
                + CategoryTotalsSum(keys \ {key})

\* The entries of the input whose title is the given one.
EntriesTitled(title) ==
    { <<i, k>> \in (1..Len(branches)) \X (1..MaxEntries) :
        k <= Len(ChangesOf(branches[i])) /\ ChangesOf(branches[i])[k].title = title }

\* C9: every entry is counted in exactly one of the 14 categories, in other
\* when its title holds no keyword, so the category totals add up to
\* totalChanges.
CategoryTotalsAddUp ==
    pc = "done" =>
        /\ DOMAIN stats.changesByCategory = CategoryKeys
        /\ Cardinality(CategoryKeys) = 14
        /\ CategoryTotalsSum(CategoryKeys) = stats.totalChanges
        /\ stats.changesByCategory["other"].totalChanges
              = Cardinality(EntriesTitled(TitleOther))
        /\ stats.changesByCategory["schedule"].totalChanges
              = Cardinality(EntriesTitled(TitleGrafik))

\* C9 witness: entries of two categories, one of them other, were counted.
CategoryTotalsWitness ==
    /\ pc = "done"
    /\ stats.changesByCategory["other"].totalChanges = 1
    /\ stats.changesByCategory["schedule"].totalChanges = 2
    /\ stats.totalChanges = 3
-----------------------------------------------------------------------------
(* AddressMatcher: the loop of match-addresses over the canonical addresses *)

MaxCandidates == 2

\* Similarity ratings are kept in thousandths: 0.83 is 830.
STRICT_THRESHOLD == 830
WEAK_THRESHOLD == 730

\* findBestMatch(j.norm, xmlNorms).bestMatch.rating: the largest rating.
BestScore(rts) ==
    CHOOSE r \in { rts[i] : i \in 1..Len(rts) } : \A i \in 1..Len(rts) : rts[i] <= r

\* Mutant: findLastIndex instead of findIndex.
BestIndexLast(rts, bestScore) ==
    IF \A i \in 1..Len(rts) : rts[i] # bestScore THEN 0
    ELSE CHOOSE i \in 1..Len(rts) :
            /\ rts[i] = bestScore
            /\ \A k \in (i + 1)..Len(rts) : rts[k] # bestScore

\* ratings.findIndex(r => r.rating === bestScore), 1-based; 0 for -1.
BestIndex(rts, bestScore) ==
    IF \A i \in 1..Len(rts) : rts[i] # bestScore THEN 0
    ELSE CHOOSE i \in 1..Len(rts) :
            /\ rts[i] = bestScore
            /\ \A k \in 1..(i - 1) : rts[k] # bestScore

streetOk(j, bestXml) ==
    /\ j.street # <<>>
    /\ bestXml.street # <<>>
    /\ (Includes(bestXml.street, j.street) \/ Includes(j.street, bestXml.street))

\* Mutant: the houses are compared without requiring them to be present.
houseOkEmptyAllowed(j, bestXml) == j.house = bestXml.house

houseOk(j, bestXml) ==
    /\ j.house # <<>>
    /\ bestXml.house # <<>>
    /\ j.house = bestXml.house

\* Mutant: bestScore > STRICT_THRESHOLD instead of >=.
isMatchStrictlyAbove(j, bestXml, bestScore) ==
    IF bestScore > STRICT_THRESHOLD THEN TRUE
    ELSE IF bestScore >= WEAK_THRESHOLD
         THEN streetOk(j, bestXml) /\ houseOk(j, bestXml)
         ELSE FALSE

\* The decision of the loop body for a candidate bestXml that exists.
isMatch(j, bestXml, bestScore) ==
    IF bestScore >= STRICT_THRESHOLD THEN TRUE
    ELSE IF bestScore >= WEAK_THRESHOLD
         THEN streetOk(j, bestXml) /\ houseOk(j, bestXml)
         ELSE FALSE

\* Mutant: in the weak tier the fallback is tried on every candidate of
\* that tier, not on the best one only.
matchOneAnyWeakCandidate(j, xmls, rts) ==
    IF Len(xmls) = 0
    THEN [threw |-> TRUE, isMatch |-> FALSE, bestIndex |-> 0, bestScore |-> 0]
    ELSE [ threw |-> FALSE,
           isMatch |-> \E i \in 1..Len(xmls) :
                           /\ rts[i] >= WEAK_THRESHOLD
                           /\ isMatch(j, xmls[i], rts[i]),
           bestIndex |-> BestIndex(rts, BestScore(rts)),
           bestScore |-> BestScore(rts) ]

\* One iteration of the loop "for (const j of jsonAddresses)".  findBestMatch
\* throws for an empty list of targets, which ends main.
matchOne(j, xmls, rts) ==
    IF Len(xmls) = 0
    THEN [threw |-> TRUE, isMatch |-> FALSE, bestIndex |-> 0, bestScore |-> 0]
    ELSE LET bestScore == BestScore(rts)
             bestIndex == BestIndex(rts, bestScore)
         IN  [ threw |-> FALSE,
               isMatch |-> IF bestIndex > 0
                           THEN isMatch(j, xmls[bestIndex], bestScore)
                           ELSE FALSE,
               bestIndex |-> bestIndex,
               bestScore |-> bestScore ]

\* Streets and houses of normalised addresses: "ul a", "ul ab", "pr x".
StreetA == <<"u","l"," ","a">>
StreetAB == <<"u","l"," ","a","b">>
StreetX == <<"p","r"," ","x">>

JsonAddressChoices ==
    [street : {<<>>, StreetA, StreetAB}, house : {<<>>, <<"1">>}]

XmlAddressChoices ==
    [street : {<<>>, StreetA, StreetAB}, house : {<<>>, <<"1">>}]
        \cup { [street |-> StreetX, house |-> <<"1">>],
               [street |-> StreetA, house |-> <<"2">>] }

RatingChoices == {729, 730, 829, 830}

InitMatch ==
    /\ jsonAddress \in JsonAddressChoices
    /\ \E n \in 0..MaxCandidates :
          /\ xmlAddresses \in [1..n -> XmlAddressChoices]
          /\ ratings \in [1..n -> RatingChoices]
    /\ matched = NoMatch
    /\ DiffIdle
    /\ CategoryIdle
    /\ AnalyzeIdle
    /\ ScheduleIdle
    /\ RunIdle
    /\ NormalizeIdle
    /\ PickIdle
    /\ CheckIdle
    /\ CacheIdle
    /\ AuthIdle
    /\ BrowserIdle
    /\ ChunksIdle
    /\ pc = "input"

\* The body of the loop for the address j.
MatchOne ==
    /\ pc = "input"
    /\ matched' = matchOne(jsonAddress, xmlAddresses, ratings)
    /\ pc' = "done"
    /\ UNCHANGED <<jsonAddress, xmlAddresses, ratings,
                   diffVars, categoryVars, analyzeVars, scheduleVars,
                   runVars, normalizeVars, pickVars, checkVars,
                   cacheVars, authVars, browserVars, chunkVars>>

NextMatch == MatchOne

SpecMatch == InitMatch /\ [][NextMatch]_vars

\* The structural agreement of the claim: both streets non-empty and one
\* inside the other, both houses non-empty and equal.
StructuralAgreement(a, b) ==
    /\ Len(a.street) > 0 /\ Len(b.street) > 0
    /\ (Includes(a.street, b.street) \/ Includes(b.street, a.street))
    /\ Len(a.house) > 0 /\ Len(b.house) > 0
    /\ a.house = b.house

\* C1: for the best-scoring candidate, a score >= 0.83 is a match; a score
\* in [0.73, 0.83) is a match exactly when the structural agreement holds;
\* anything else is no match.
MatchDecisionByThresholds ==
    (pc = "done" /\ ~matched.threw) =>
        LET best == xmlAddresses[matched.bestIndex]
            score == ratings[matched.bestIndex]
        IN  /\ score >= 830 => matched.isMatch
            /\ (score >= 730 /\ score < 830) =>
                  (matched.isMatch <=> StructuralAgreement(jsonAddress, best))
            /\ score < 730 => ~matched.isMatch

\* C1 witness: a best score of exactly 0.73 accepted through the structural
\* agreement of two different street texts.
MatchWeakStructuralWitness ==
    /\ pc = "done"
    /\ ~matched.threw
    /\ matched.bestScore = 730
    /\ matched.isMatch
    /\ xmlAddresses[matched.bestIndex].street # jsonAddress.street

\* C10: the selected candidate has the maximum rating, and is the first of
\* the candidates that have it.
MatchSelectsFirstMaximum ==
    (pc = "done" /\ ~matched.threw) =>
        /\ matched.bestIndex \in 1..Len(ratings)
        /\ matched.bestScore = ratings[matched.bestIndex]
        /\ \A i \in 1..Len(ratings) : ratings[i] <= ratings[matched.bestIndex]
        /\ \A i \in 1..(matched.bestIndex - 1) :
              ratings[i] < ratings[matched.bestIndex]

\* C10 witness: two different candidates share the maximum rating and the
\* first one was selected.
MatchTieWitness ==
    /\ pc = "done"
    /\ Len(ratings) = 2
    /\ ratings[1] = ratings[2]
    /\ xmlAddresses[1] # xmlAddresses[2]
    /\ matched.bestIndex = 1

\* The canonical address or the candidate lacks its street or its house.
LacksStreetOrHouse(a, b) ==
    a.street = <<>> \/ a.house = <<>> \/ b.street = <<>> \/ b.house = <<>>

\* C11 as stated: when the canonical address or the best candidate has an
\* empty street or an empty house, the result is no match, for every score.
EmptyFieldNeverMatchesAsStated ==
    (pc = "done" /\ ~matched.threw) =>
        (LacksStreetOrHouse(jsonAddress, xmlAddresses[matched.bestIndex])
            => ~matched.isMatch)

\* C11 amended: when the canonical address or the best candidate has an
\* empty street or an empty house and the best score is below 0.83, the
\* result is no match; from 0.83 on the fields are not consulted.
EmptyFieldNeverMatchesBelowStrict ==
    (pc = "done" /\ ~matched.threw) =>
        ((/\ LacksStreetOrHouse(jsonAddress, xmlAddresses[matched.bestIndex])
          /\ ratings[matched.bestIndex] < 830)
            => ~matched.isMatch)

\* C11 witness: a best score of 0.829, equal streets and no house on either
\* side: rejected.
EmptyHouseRejectedWitness ==
    /\ pc = "done"
    /\ ~matched.threw
    /\ matched.bestScore = 829
    /\ jsonAddress.street = StreetA
    /\ xmlAddresses[matched.bestIndex].street = StreetA
    /\ jsonAddress.house = <<>>
    /\ xmlAddresses[matched.bestIndex].house = <<>>
    /\ ~matched.isMatch

\* C22: the street+house fallback is evaluated on the best-scoring candidate
\* only: when that candidate is in the weak tier [0.73, 0.83) and fails the
\* structural agreement, the canonical address is unmatched, whatever the
\* other candidates are.
FallbackOnBestCandidateOnly ==
    (pc = "done" /\ ~matched.threw) =>
        ((/\ ratings[matched.bestIndex] >= 730
          /\ ratings[matched.bestIndex] < 830
          /\ ~StructuralAgreement(jsonAddress, xmlAddresses[matched.bestIndex]))
            => ~matched.isMatch)

\* C22 witness: the best candidate, in the weak tier, fails the structural
\* agreement and the address is unmatched, while another candidate of the
\* weak tier agrees structurally.
OtherWeakCandidateWouldPassWitness ==
    /\ pc = "done"
    /\ ~matched.threw
    /\ ~matched.isMatch
    /\ ratings[matched.bestIndex] = 829
    /\ ~StructuralAgreement(jsonAddress, xmlAddresses[matched.bestIndex])
    /\ \E i \in 1..Len(ratings) :
          /\ i # matched.bestIndex
          /\ ratings[i] >= 730 /\ ratings[i] < 830
          /\ StructuralAgreement(jsonAddress, xmlAddresses[i])
-----------------------------------------------------------------------------
(* ScheduleNormalizer and ScheduleComparator: normalize.ts, compare.ts      *)

MaxWorkingTimeParts == 2
MaxHoursParts == 2

\* s.replace(/\s+/g, " ") of the part of s from position i on.
RECURSIVE CollapseSpaces(_, _)
CollapseSpaces(s, i) ==
    IF i > Len(s) THEN <<>>
    ELSE IF ~IsSpace(s[i]) THEN <<s[i]>> \o CollapseSpaces(s, i + 1)
    ELSE IF i > 1 /\ IsSpace(s[i - 1]) THEN CollapseSpaces(s, i + 1)
    ELSE <<" ">> \o CollapseSpaces(s, i + 1)

\* s.replace(/[.<ndash><mdash>]/g, "-")
UnifyDashes(s) ==
    [i \in 1..Len(s) |-> IF s[i] \in {".", "ndash", "mdash"} THEN "-" ELSE s[i]]

\* s.trim()
Trim(s) ==
    LET kept == { i \in 1..Len(s) : ~IsSpace(s[i]) }
    IN  IF kept = {} THEN <<>>
        ELSE SubSeq(s, CHOOSE i \in kept : \A k \in kept : i <= k,
                       CHOOSE i \in kept : \A k \in kept : k <= i)

\* (s || "").toLowerCase().replace(/\s+/g, " ").replace(/[...]/g, "-").trim()
norm(s) == Trim(UnifyDashes(CollapseSpaces(ToLowerCase(s), 1)))

\* x.f || "": the text of an optional field.
TextOrEmpty(r, f) == IF f \in DOMAIN r THEN r[f] ELSE <<>>

Kruglosutochno == <<"k","r","u","g","l","o","s","u","t","o","ch","n","o">>
Ezhedn == <<"e","zh","e","d","n">>

\* The length of the match of \d{1,2}:\d{2} at position i of s, 0 for none.
TimeLenAt(s, i) ==
    IF /\ i + 4 <= Len(s)
       /\ IsDigit(s[i]) /\ IsDigit(s[i + 1]) /\ s[i + 2] = ":"
       /\ IsDigit(s[i + 3]) /\ IsDigit(s[i + 4])
    THEN 5
    ELSE IF /\ i + 3 <= Len(s)
            /\ IsDigit(s[i]) /\ s[i + 1] = ":"
            /\ IsDigit(s[i + 2]) /\ IsDigit(s[i + 3])
         THEN 4
         ELSE 0

\* The match of \s*(\d{1,2}:\d{2})\s*-\s*(\d{1,2}:\d{2}) at position q of s:
\* the first time at position a, the dash at d, the second time at b.
IntervalAt(s, q) ==
    LET a == q + SpacesFrom(s, q)
        n1 == TimeLenAt(s, a)
        d == a + n1 + SpacesFrom(s, a + n1)
        b == d + 1 + SpacesFrom(s, d + 1)
    IN  IF n1 > 0 /\ d <= Len(s) /\ s[d] = "-" /\ TimeLenAt(s, b) > 0
        THEN [ ok |-> TRUE,
               from |-> SubSeq(s, a, a + n1 - 1),
               to |-> SubSeq(s, b, b + TimeLenAt(s, b) - 1) ]
        ELSE [ ok |-> FALSE, from |-> <<>>, to |-> <<>> ]

\* The positions at which [^.]*\.? may end when it starts at position p of t
\* and the rest of the pattern matches.
IntervalStarts(t, p) ==
    { q \in p..(Len(t) + 1) :
        /\ \A k \in p..(q - 2) : t[k] # "."
        /\ IntervalAt(t, q).ok }

\* The positions of t at which the whole pattern matches.
DailyStarts(t) ==
    { p \in 1..Len(t) :
        /\ p + Len(Ezhedn) - 1 <= Len(t)
        /\ SubSeq(t, p, p + Len(Ezhedn) - 1) = Ezhedn
        /\ IntervalStarts(t, p + Len(Ezhedn)) # {} }

\* t.match(/(ezhedn|ezhednevno)[^.]*\.?\s*(\d{1,2}:\d{2})\s*-\s*(\d{1,2}:\d{2})/):
\* the leftmost match; the second alternative never decides, since the first
\* one followed by [^.]* matches wherever it does; [^.]* is greedy, so the
\* interval is the one found at the last position it can end at.
DailyMatch(t) ==
    LET starts == DailyStarts(t)
    IN  IF starts = {} THEN [ ok |-> FALSE, from |-> <<>>, to |-> <<>> ]
        ELSE LET p == CHOOSE x \in starts : \A k \in starts : x <= k
                 ends == IntervalStarts(t, p + Len(Ezhedn))
             IN  IntervalAt(t, CHOOSE q \in ends : \A k \in ends : k <= q)

\* const [h, m] = hhmm.split(":"); return `${h.padStart(2, "0")}:${m}`
\* for a text hhmm with one colon.
pad(hhmm) ==
    LET colon == CHOOSE i \in 1..Len(hhmm) : hhmm[i] = ":"
        h == SubSeq(hhmm, 1, colon - 1)
    IN  (IF Len(h) = 0 THEN <<"0", "0">> ELSE IF Len(h) = 1 THEN <<"0">> \o h ELSE h)
            \o <<":">> \o SubSeq(hhmm, colon + 1, Len(hhmm))

allDays == <<"mon", "tue", "wed", "thu", "fri", "sat", "sun">>

\* Schedule.byDay is kept as the sequence of its entries in insertion order;
\* every day gets the one interval.
byDayOf(from, to) ==
    [ i \in 1..Len(allDays) |->
        [ day |-> allDays[i], intervals |-> << [from |-> from, to |-> to] >> ] ]

normalizeXmlWorkingTime(text) ==
    LET t == norm(text)
    IN  IF t = <<>> \/ Includes(t, Kruglosutochno)
        THEN [ is24x7 |-> TRUE, byDay |-> <<>> ]
        ELSE LET m == DailyMatch(t)
             IN  IF m.ok
                 THEN [ is24x7 |-> FALSE, byDay |-> byDayOf(pad(m.from), pad(m.to)) ]
                 ELSE [ is24x7 |-> FALSE, byDay |-> <<>> ]

\* Mutant: the marker 24/7 is looked for literally, without \s*.
AlwaysOpenInLiteral(t) ==
    Includes(t, Kruglosutochno) \/ Includes(t, <<"2", "4", "/", "7">>)

\* /24\s*\/\s*7|kruglosutochno/.test(t)
AlwaysOpenIn(t) ==
    \/ Includes(t, Kruglosutochno)
    \/ \E i \in 1..Len(t) :
          LET slash == i + 2 + SpacesFrom(t, i + 2)
              seven == slash + 1 + SpacesFrom(t, slash + 1)
          IN  /\ i + 1 <= Len(t) /\ t[i] = "2" /\ t[i + 1] = "4"
              /\ slash <= Len(t) /\ t[slash] = "/"
              /\ seven <= Len(t) /\ t[seven] = "7"

\* Object.values(xml.byDay).filter(Boolean)
DaysOf(xml) == [ i \in 1..Len(xml.byDay) |-> xml.byDay[i].intervals ]

\* Mutant: only the opening time is looked for.
expectFromOnly(sample) == sample.from

\* const expect = `${sample.from}-${sample.to}`
expectOf(sample) == sample.from \o <<"-">> \o sample.to

\* summarizeXml(xml): "kruglosutochno", "(ne raspoznano)" or
\* "ezhednevno from-to" of the first interval of the first day.
summarizeXml(xml) ==
    IF xml.is24x7 THEN Kruglosutochno
    ELSE IF Len(DaysOf(xml)) = 0
         THEN <<"(","n","e"," ","r","a","s","p","o","z","n","a","n","o",")">>
         ELSE <<"e","zh","e","d","n","e","v","n","o"," ">>
                \o DaysOf(xml)[1][1].from \o <<"-">> \o DaysOf(xml)[1][1].to

\* The reasons pushed by compareSchedules: "Ozhidalos: kruglosutochno",
\* "Ne raspoznan format chasov v XML", "Ozhidalos: <expect> ezhednevno".
reasonsOf(xml, t) ==
    IF xml.is24x7
    THEN IF AlwaysOpenIn(t) THEN <<>>
         ELSE << <<"O","zh","i","d","a","l","o","s","soft",":"," ">>
                    \o Kruglosutochno >>
    ELSE IF Len(DaysOf(xml)) = 0
         THEN << <<"N","e"," ","r","a","s","p","o","z","n","a","n"," ",
                   "f","o","r","m","a","t"," ","ch","a","s","o","v"," ",
                   "v"," ","X","M","L">> >>
         ELSE IF Includes(t, expectOf(DaysOf(xml)[1][1])) THEN <<>>
              ELSE << <<"O","zh","i","d","a","l","o","s","soft",":"," ">>
                         \o expectOf(DaysOf(xml)[1][1])
                         \o <<" ","e","zh","e","d","n","e","v","n","o">> >>

\* The returned CompareResult for the reasons collected.
resultOf(xml, yHours, reasons) ==
    IF "text" \in DOMAIN yHours
    THEN [ ok |-> Len(reasons) = 0, reasons |-> reasons,
           targetText |-> summarizeXml(xml), actualText |-> yHours.text ]
    ELSE [ ok |-> Len(reasons) = 0, reasons |-> reasons,
           targetText |-> summarizeXml(xml) ]

\* Mutant: a positive tolerance accepts a text that has the opening time.
compareSchedulesTolerant(xml, yHours, toleranceMin_) ==
    IF /\ toleranceMin_ > 0 /\ ~xml.is24x7 /\ Len(DaysOf(xml)) > 0
       /\ Includes(norm(TextOrEmpty(yHours, "text")), DaysOf(xml)[1][1].from)
    THEN resultOf(xml, yHours, <<>>)
    ELSE resultOf(xml, yHours, reasonsOf(xml, norm(TextOrEmpty(yHours, "text"))))

\* compareSchedules(xml, yHours, _toleranceMin)
compareSchedules(xml, yHours, toleranceMin_) ==
    resultOf(xml, yHours, reasonsOf(xml, norm(TextOrEmpty(yHours, "text"))))

\* The pieces the hours texts of the two feeds are put together from:
\* "Ezhedn. ", "ezhednevno ", "09:00-22:00", "10:00 <ndash> 22:00",
\* "Kruglosutochno", " ", "pn-pt " for the XML feed and "24/7",
\* "24 <tab>/ 7", "Kruglosutochno", "09:00-22:00", "09:00<ndash>21:55" for
\* the candidate.
WorkingTimeParts == <<
    <<"E","zh","e","d","n","."," ">>,
    <<"e","zh","e","d","n","e","v","n","o"," ">>,
    <<"0","9",":","0","0","-","2","2",":","0","0">>,
    <<"1","0",":","0","0"," ","ndash"," ","2","2",":","0","0">>,
    <<"K","r","u","g","l","o","s","u","t","o","ch","n","o">>,
    <<" ">>,
    <<"p","n","-","p","t"," ">> >>

HoursParts == <<
    <<"2","4","/","7">>,
    <<"2","4"," ","tab","/"," ","7">>,
    <<"K","r","u","g","l","o","s","u","t","o","ch","n","o">>,
    <<"0","9",":","0","0","-","2","2",":","0","0">>,
    <<"0","9",":","0","0","ndash","2","1",":","5","5">> >>

\* The pieces parts[f[i]], parts[f[i + 1]], ... one after the other.
RECURSIVE Concat(_, _, _)
Concat(parts, f, i) ==
    IF i > Len(f) THEN <<>> ELSE parts[f[i]] \o Concat(parts, f, i + 1)

\* The texts made of at most n pieces.
TextsUpTo(parts, n) ==
    { Concat(parts, f, 1) : f \in UNION { [1..k -> 1..Len(parts)] : k \in 0..n } }

\* env.TIME_TOLERANCE_MINUTES: 0 by default, up to 180.
ToleranceChoices == {0, 15}

InitSchedule ==
    /\ xmlCompany \in
          [ companyId : {<<"1">>},
            workingTime : TextsUpTo(WorkingTimeParts, MaxWorkingTimeParts) ]
              \cup { [companyId |-> <<"1">>] }
    /\ candidateHours \in [ text : TextsUpTo(HoursParts, MaxHoursParts) ]
                    \cup { [avail |-> <<>>] }
    /\ toleranceMin = 0
    /\ xmlSched = NoSchedule
    /\ res = NoResult
    /\ DiffIdle
    /\ CategoryIdle
    /\ AnalyzeIdle
    /\ MatchIdle
    /\ RunIdle
    /\ NormalizeIdle
    /\ PickIdle
    /\ CheckIdle
    /\ CacheIdle
    /\ AuthIdle
    /\ BrowserIdle
    /\ ChunksIdle
    /\ pc = "input"

\* const xmlSched = normalizeXmlWorkingTime(c.workingTime)
NormalizeXmlWorkingTime ==
    /\ pc = "input"
    /\ xmlSched' = normalizeXmlWorkingTime(TextOrEmpty(xmlCompany, "workingTime"))
    /\ pc' = "normalized"
    /\ UNCHANGED <<xmlCompany, candidateHours, toleranceMin, res,
                   diffVars, categoryVars, analyzeVars, matchVars,
                   runVars, normalizeVars, pickVars, checkVars,
                   cacheVars, authVars, browserVars, chunkVars>>

\* const res = compareSchedules(xmlSched, {text, avail}, env.TIME_TOLERANCE_MINUTES)
CompareSchedules ==
    /\ pc = "normalized"
    /\ \E t \in ToleranceChoices :
          /\ toleranceMin' = t
          /\ res' = compareSchedules(xmlSched, candidateHours, t)
    /\ pc' = "done"
    /\ UNCHANGED <<xmlCompany, candidateHours, xmlSched,
                   diffVars, categoryVars, analyzeVars, matchVars,
                   runVars, normalizeVars, pickVars, checkVars,
                   cacheVars, authVars, browserVars, chunkVars>>

NextSchedule == NormalizeXmlWorkingTime \/ CompareSchedules

SpecSchedule == InitSchedule /\ [][NextSchedule]_vars

\* The hours text of the XML feed, lower-cased, has neither the always-open
\* keyword nor the every-day keyword: nothing in it can be recognised.
LacksBothMarkers(text) ==
    /\ ~Includes(ToLowerCase(text), Kruglosutochno)
    /\ ~Includes(ToLowerCase(text), Ezhedn)

\* C13 as stated: the returned schedule has an empty byDay when is24x7 is
\* true, and is24x7 false with an empty byDay when the text has no
\* recognisable pattern.
ScheduleShapeAsStated ==
    pc # "input" =>
        /\ xmlSched.is24x7 => xmlSched.byDay = <<>>
        /\ LacksBothMarkers(TextOrEmpty(xmlCompany, "workingTime")) =>
              (~xmlSched.is24x7 /\ xmlSched.byDay = <<>>)

\* C14 as stated: is24x7 is true only when the text contains the always-open
\* keyword, and a text with no recognisable pattern, the empty and the absent
\* text included, yields the unclassified schedule.
AlwaysOpenOnlyByKeywordAsStated ==
    pc # "input" =>
        /\ xmlSched.is24x7 =>
              Includes(ToLowerCase(TextOrEmpty(xmlCompany, "workingTime")),
                       Kruglosutochno)
        /\ LacksBothMarkers(TextOrEmpty(xmlCompany, "workingTime")) =>
              xmlSched = [is24x7 |-> FALSE, byDay |-> <<>>]

\* The text has "24" and "7" around a slash with nothing but the given
\* number of white-space characters, at most, on either side of the slash.
Has24Slash7(t, maxSpaces) ==
    \E i \in 1..Len(t) : \E a \in 0..maxSpaces : \E b \in 0..maxSpaces :
        /\ i + 3 + a + b <= Len(t)
        /\ t[i] = "2" /\ t[i + 1] = "4"
        /\ \A k \in 1..a : IsSpace(t[i + 1 + k])
        /\ t[i + 2 + a] = "/"
        /\ \A k \in 1..b : IsSpace(t[i + 2 + a + k])
        /\ t[i + 3 + a + b] = "7"

\* The verdict for an always-open schedule is ok exactly when marked is true,
\* and otherwise carries the one reason "Ozhidalos: kruglosutochno".
AlwaysOpenVerdict(marked) ==
    /\ res.ok <=> marked
    /\ ~res.ok =>
          res.reasons = << <<"O","zh","i","d","a","l","o","s","soft",":"," ",
                             "k","r","u","g","l","o","s","u","t","o","ch","n","o">> >>

\* C15 as stated: for an always-open schedule the result is ok exactly when
\* the normalised candidate text contains the always-open keyword or the
\* literal 24/7; otherwise its reasons are the single always-open reason.
AlwaysOpenByLiteralMarkerAsStated ==
    (pc = "done" /\ xmlSched.is24x7) =>
        AlwaysOpenVerdict(
            \/ Includes(norm(TextOrEmpty(candidateHours, "text")), Kruglosutochno)
            \/ Has24Slash7(norm(TextOrEmpty(candidateHours, "text")), 0))

\* C15 amended: the marker 24/7 is also recognised with white space on either
\* side of the slash.
AlwaysOpenBySpacedMarker ==
    (pc = "done" /\ xmlSched.is24x7) =>
        AlwaysOpenVerdict(
            \/ Includes(norm(TextOrEmpty(candidateHours, "text")), Kruglosutochno)
            \/ Has24Slash7(norm(TextOrEmpty(candidateHours, "text")),
                           Len(TextOrEmpty(candidateHours, "text"))))

\* C15 witness: an always-open schedule compared with the text "24 <tab>/ 7",
\* which passes.
AlwaysOpenSpacedWitness ==
    /\ pc = "done"
    /\ xmlSched.is24x7
    /\ candidateHours = [text |-> HoursParts[2]]
    /\ res.ok

\* The first interval of the first day of a daily schedule, as "from-to".
FirstIntervalText ==
    xmlSched.byDay[1].intervals[1].from \o <<"-">>
        \o xmlSched.byDay[1].intervals[1].to

\* C16: for a daily schedule the result is ok exactly when the normalised
\* candidate text contains "from-to" of the first interval of the first day;
\* a failure names that interval in its reason; ok holds exactly when there
\* are no reasons.
DailyScheduleByContainment ==
    (pc = "done" /\ ~xmlSched.is24x7 /\ xmlSched.byDay # <<>>) =>
        /\ res.ok <=> Includes(norm(TextOrEmpty(candidateHours, "text")),
                               FirstIntervalText)
        /\ ~res.ok => /\ Len(res.reasons) = 1
                      /\ Includes(res.reasons[1], FirstIntervalText)
        /\ res.ok <=> res.reasons = <<>>

\* C16 witness: the daily schedule 09:00-22:00 compared with a candidate text
\* that has 09:00-21:55 fails and names 09:00-22:00.
DailyScheduleNearMissWitness ==
    /\ pc = "done"
    /\ ~xmlSched.is24x7
    /\ xmlSched.byDay # <<>>
    /\ FirstIntervalText = HoursParts[4]
    /\ candidateHours = [text |-> HoursParts[5]]
    /\ ~res.ok
    /\ Includes(res.reasons[1], HoursParts[4])

MaxCompanies == 2
MaxBranchTasks == 4

\* const limit = pLimit(3) of check-recent-changes.ts and fetch-changes.ts
CheckConcurrency == 3

\* env.YMAPS_CONCURRENCY: an integer from 1 to 20.
ConcurrencyChoices == {1, 2}

\* c.workingTime of a company: "Ezhedn. 09:00-22:00", "Kruglosutochno", "pn-pt ".
RunWorkingTimes ==
    { WorkingTimeParts[1] \o WorkingTimeParts[3], WorkingTimeParts[5],
      WorkingTimeParts[7] }

\* pickBest(c, cands): no candidate, or a candidate with or without an hours
\* text ("24/7", "09:00-22:00", "09:00<ndash>21:55").
BestChoices ==
    { <<>>, << [id |-> <<"7">>] >>, << [hoursText |-> HoursParts[1]] >> }
        \cup { << [id |-> <<"7">>, hoursText |-> HoursParts[k]] >> : k \in {1, 4, 5} }

\* checkRecentChanges(url, id): a result, or a rejection.
CheckChoices ==
    { [hasRecentChanges |-> TRUE], [hasRecentChanges |-> FALSE],
      [error |-> <<"t","i","m","e","o","u","t">>] }

\* "ne najdena na kartah"
NotFoundText ==
    <<"n","e"," ","n","a","j","d","e","n","a"," ","n","a"," ","k","a","r","t","a","h">>

\* { text: best.hoursText, avail: best.hoursAvail }
hoursOf(b) ==
    IF "hoursText" \in DOMAIN b THEN [text |-> b.hoursText] ELSE [avail |-> <<>>]

\* The record runOnce pushes for a mismatch: expected res.targetText, actual
\* res.actualText when there is one.
mismatchOf(c, r) ==
    IF "actualText" \in DOMAIN r
    THEN [companyId |-> c.companyId, expected |-> r.targetText,
          actual |-> r.actualText]
    ELSE [companyId |-> c.companyId, expected |-> r.targetText]

\* compareSchedules(xmlSched, {text, avail}, env.TIME_TOLERANCE_MINUTES) of a
\* task whose company is c and whose picked candidate is b.
resOf(c, b, tol) ==
    compareSchedules(normalizeXmlWorkingTime(c.workingTime), hoursOf(b), tol)

\* The "not found" record of a company.
notFoundOf(c) ==
    [companyId |-> c.companyId,
     expected |-> summarizeXml(normalizeXmlWorkingTime(c.workingTime)),
     actual |-> NotFoundText]

\* Mutant: the list is assigned the new record instead of being appended to.
diffsAfterAssigning(d, c, picked, tol) ==
    IF picked = <<>> THEN << notFoundOf(c) >>
    ELSE IF ~resOf(c, picked[1], tol).ok
         THEN << mismatchOf(c, resOf(c, picked[1], tol)) >>
         ELSE d

\* The list diffs after the part of a runOnce task that follows the search:
\* a "not found" record when nothing was picked, a mismatch record when the
\* comparison is not ok, nothing otherwise.
diffsAfter(d, c, picked, tol) ==
    IF picked = <<>> THEN Append(d, notFoundOf(c))
    ELSE IF ~resOf(c, picked[1], tol).ok
         THEN Append(d, mismatchOf(c, resOf(c, picked[1], tol)))
         ELSE d

\* pLimit: the number of tasks started and not yet returned.
activeCount ==
    Cardinality({ i \in 1..Len(tasks) : taskState[i] \in {"lookup", "saving"} })

\* Mutant: a task is started while the pool is already full.
canStartWhenFull(active, size) == active <= size

\* pLimit: a queued task is started while fewer than `size` are active.
canStart(active, size) == active < size

\* The id an earlier run stored in the cache for a company.
CachedId == <<"3">>

\* loadMapping: the entries of the cache file, for some of the n companies.
MappingChoices(n) == UNION { [S -> {CachedId}] : S \in SUBSET (1..n) }

\* Mutant: the id of the picked candidate replaces the entry of the company.
mappingAfterOverwriting(m, c, picked) ==
    IF picked # <<>> /\ "id" \in DOMAIN picked[1]
    THEN [k \in DOMAIN m \cup {c.companyId} |->
             IF k = c.companyId THEN picked[1].id ELSE m[k]]
    ELSE m

\* if (!map[c.companyId] && best.id) map[c.companyId] = String(best.id),
\* reached only when a candidate was picked.
mappingAfter(m, c, picked) ==
    IF picked # <<>> /\ c.companyId \notin DOMAIN m /\ "id" \in DOMAIN picked[1]
    THEN [k \in DOMAIN m \cup {c.companyId} |->
             IF k = c.companyId THEN picked[1].id ELSE m[k]]
    ELSE m

\* How many branches of the file an earlier run left with hasRecentChanges.
MaxStale == 1

\* branches[index] = { ...branches[index], ...updates }
updated(bs, index, flag) == [bs EXCEPT ![index].hasRecentChanges = flag]

\* The hasRecentChanges of the updates: the result's, false after an error.
flagOf(result) ==
    IF "error" \in DOMAIN result THEN FALSE ELSE result.hasRecentChanges

\* branches.filter(b => b.hasRecentChanges)
changedOf(bs) == SelectSeq(bs, LAMBDA b : b.hasRecentChanges)

\* Mutant: the task does not look at the termination flag.
stateOnStartIgnoringFlag(scriptName, shuttingDown) == "lookup"

\* The first statements of a task, up to its first await.
stateOnStart(scriptName, shuttingDown) ==
    IF scriptName = "checkRecent" /\ shuttingDown THEN "done" ELSE "lookup"

InitRun ==
    /\ \/ /\ script = "runOnce"
          /\ concurrency \in ConcurrencyChoices
          /\ \E n \in 0..MaxCompanies : \E w \in [1..n -> RunWorkingTimes] :
                /\ tasks = [ i \in 1..n |-> [companyId |-> i, workingTime |-> w[i]] ]
                /\ mapping \in MappingChoices(n)
          /\ cacheFile = mapping
          /\ CheckIdle
       \/ /\ script = "fetchChanges"
          /\ concurrency = CheckConcurrency
          /\ \E n \in 1..MaxBranchTasks :
                tasks = [ i \in 1..n |-> [id |-> i] ]
          /\ CheckIdle
          /\ CacheIdle
       \/ /\ script = "checkRecent"
          /\ concurrency = CheckConcurrency
          /\ \E n \in 1..MaxBranchTasks : \E stale \in SUBSET (1..n) :
                /\ Cardinality(stale) <= MaxStale
                /\ tasks = [ i \in 1..n |-> [id |-> i] ]
                /\ memBranches = [ i \in 1..n |->
                                     [id |-> i, hasRecentChanges |-> i \in stale] ]
          /\ branchesFile = memBranches
          /\ writes = [ i \in 1..Len(tasks) |-> <<>> ]
          /\ report = NoReport
          /\ CacheIdle
    /\ taskState = [ i \in 1..Len(tasks) |-> "queued" ]
    /\ outcome = [ i \in 1..Len(tasks) |-> <<>> ]
    /\ diffs = <<>>
    /\ isShuttingDown = FALSE
    /\ DiffIdle
    /\ CategoryIdle
    /\ AnalyzeIdle
    /\ MatchIdle
    /\ ScheduleIdle
    /\ NormalizeIdle
    /\ PickIdle
    /\ AuthIdle
    /\ BrowserIdle
    /\ ChunksIdle
    /\ pc = "running"

\* The pool starts the first queued task.  A runOnce task runs up to
\* `await searchCandidates`; a checkRecent task returns at once when the
\* process is shutting down, and otherwise runs up to `await checkRecentChanges`.
StartTask ==
    /\ pc = "running"
    /\ canStart(activeCount, concurrency)
    /\ \E i \in 1..Len(tasks) :
          /\ taskState[i] = "queued"
          /\ \A k \in 1..(i - 1) : taskState[k] # "queued"
          /\ taskState' = [taskState EXCEPT ![i] =
                                 stateOnStart(script, isShuttingDown)]
    /\ UNCHANGED <<script, tasks, outcome, diffs, concurrency, isShuttingDown, pc,
                   diffVars, categoryVars, analyzeVars, matchVars, scheduleVars,
                   normalizeVars, pickVars, checkVars, cacheVars,
                   authVars, browserVars, chunkVars>>

\* runOnce: the search of one company resolves (searchCandidates catches its
\* errors and resolves to no candidates); the task picks the best candidate,
\* compares the schedules, pushes what it has to push, and returns.
SearchResolved ==
    /\ pc = "running"
    /\ script = "runOnce"
    /\ \E i \in 1..Len(tasks) : \E picked \in BestChoices :
          /\ taskState[i] = "lookup"
          /\ outcome' = [outcome EXCEPT ![i] = picked]
          /\ diffs' = diffsAfter(diffs, tasks[i], picked, toleranceMin)
          /\ mapping' = mappingAfter(mapping, tasks[i], picked)
          /\ taskState' = [taskState EXCEPT ![i] = "done"]
    /\ UNCHANGED <<script, tasks, concurrency, isShuttingDown, pc,
                   diffVars, categoryVars, analyzeVars, matchVars, scheduleVars,
                   normalizeVars, pickVars, checkVars, cacheFile,
                   authVars, browserVars, chunkVars>>

\* checkRecent: the check of one branch resolves or rejects.  A rejection
\* during shutdown makes the task return at once.  Otherwise the task counts
\* a resolved check, and updateBranchInFile assigns branches[index] and calls
\* fs.writeFile with the text of the whole array as it is now; the task
\* awaits the write.
CheckSettled ==
    /\ pc = "running"
    /\ script = "checkRecent"
    /\ \E i \in 1..Len(tasks) : \E result \in CheckChoices :
          /\ taskState[i] = "lookup"
          /\ outcome' = [outcome EXCEPT ![i] = <<result>>]
          /\ IF "error" \in DOMAIN result /\ isShuttingDown
             THEN /\ taskState' = [taskState EXCEPT ![i] = "done"]
                  /\ UNCHANGED <<memBranches, writes, report>>
             ELSE /\ taskState' = [taskState EXCEPT ![i] = "saving"]
                  /\ memBranches' = updated(memBranches, i, flagOf(result))
                  /\ writes' = [writes EXCEPT ![i] =
                                    <<updated(memBranches, i, flagOf(result))>>]
                  /\ report' = IF "error" \in DOMAIN result THEN report
                               ELSE [report EXCEPT !.processed = @ + 1]
    /\ UNCHANGED <<script, tasks, diffs, concurrency, isShuttingDown, pc,
                   branchesFile,
                   diffVars, categoryVars, analyzeVars, matchVars, scheduleVars,
                   normalizeVars, pickVars, cacheVars, authVars,
                   browserVars, chunkVars>>

\* fetchChanges: the history of one branch is fetched; the task filters it
\* and returns it.
HistoryFetched ==
    /\ pc = "running"
    /\ script = "fetchChanges"
    /\ \E i \in 1..Len(tasks) :
          /\ taskState[i] = "lookup"
          /\ outcome' = [outcome EXCEPT ![i] = << [branchId |-> tasks[i].id] >>]
          /\ taskState' = [taskState EXCEPT ![i] = "done"]
    /\ UNCHANGED <<script, tasks, diffs, concurrency, isShuttingDown, pc,
                   diffVars, categoryVars, analyzeVars, matchVars, scheduleVars,
                   normalizeVars, pickVars, checkVars, cacheVars,
                   authVars, browserVars, chunkVars>>

\* checkRecent: the write of one task lands in the file and the awaited
\* updateBranchInFile resolves; the writes of different tasks are separate
\* fs.writeFile calls on the same path and complete in any order.  The task
\* counts a branch with recent changes and returns.
BranchSaved ==
    /\ pc = "running"
    /\ \E i \in 1..Len(tasks) :
          /\ taskState[i] = "saving"
          /\ branchesFile' = writes[i][1]
          /\ writes' = [writes EXCEPT ![i] = <<>>]
          /\ report' = IF flagOf(outcome[i][1])
                       THEN [report EXCEPT !.withRecentChanges = @ + 1]
                       ELSE report
          /\ taskState' = [taskState EXCEPT ![i] = "done"]
    /\ UNCHANGED <<script, tasks, outcome, diffs, concurrency, isShuttingDown, pc,
                   memBranches,
                   diffVars, categoryVars, analyzeVars, matchVars, scheduleVars,
                   normalizeVars, pickVars, cacheVars, authVars,
                   browserVars, chunkVars>>

\* check-recent-changes: SIGINT or SIGTERM sets the flag, once.
HandleShutdown ==
    /\ pc = "running"
    /\ script = "checkRecent"
    /\ ~isShuttingDown
    /\ isShuttingDown' = TRUE
    /\ UNCHANGED <<script, tasks, taskState, outcome, diffs, concurrency, pc,
                   diffVars, categoryVars, analyzeVars, matchVars, scheduleVars,
                   normalizeVars, pickVars, checkVars, cacheVars,
                   authVars, browserVars, chunkVars>>

\* await Promise.all(tasks) resolves; checkAllRecentChanges goes on to list
\* the changed branches for its report.
AllSettled ==
    /\ pc = "running"
    /\ \A i \in 1..Len(tasks) : taskState[i] = "done"
    /\ pc' = "done"
    /\ report' = IF script = "checkRecent"
                 THEN [report EXCEPT !.changedBranches = changedOf(memBranches)]
                 ELSE report
    /\ UNCHANGED <<runVars, memBranches, branchesFile, writes,
                   diffVars, categoryVars, analyzeVars, matchVars, scheduleVars,
                   normalizeVars, pickVars, cacheVars, authVars,
                   browserVars, chunkVars>>

\* runOnce: after Promise.all, await saveMapping(env.CACHE_JSON, map) writes
\* the cache file.
SaveMapping ==
    /\ pc = "done"
    /\ script = "runOnce"
    /\ cacheFile' = mapping
    /\ pc' = "saved"
    /\ UNCHANGED <<runVars, checkVars, mapping,
                   diffVars, categoryVars, analyzeVars, matchVars, scheduleVars,
                   normalizeVars, pickVars, authVars, browserVars,
                   chunkVars>>

\* handleShutdown: the awaited closeBrowser is over, process.exit(0).
ProcessExit ==
    /\ pc \in {"running", "done"}
    /\ script = "checkRecent"
    /\ isShuttingDown
    /\ pc' = "exited"
    /\ UNCHANGED <<runVars, checkVars,
                   diffVars, categoryVars, analyzeVars, matchVars, scheduleVars,
                   normalizeVars, pickVars, cacheVars, authVars,
                   browserVars, chunkVars>>

NextRun ==
    \/ StartTask
    \/ SearchResolved
    \/ CheckSettled
    \/ HistoryFetched
    \/ BranchSaved
    \/ HandleShutdown
    \/ AllSettled
    \/ SaveMapping
    \/ ProcessExit

SpecRun == InitRun /\ [][NextRun]_vars

\* The positions of the list diffs that hold a record of company i.
RecordsOf(i) == { k \in 1..Len(diffs) : diffs[k].companyId = i }

\* The record is a "not found" record.
IsNotFound(d) == "actual" \in DOMAIN d /\ d.actual = NotFoundText

\* C17 as stated: in runOnce, a company whose hours text is not recognised
\* and whose location was found gets no record in the discrepancy list.
UnrecognisedHoursNoRecordAsStated ==
    script = "runOnce" =>
        \A i \in 1..Len(tasks) :
            ( /\ taskState[i] = "done"
              /\ outcome[i] # <<>>
              /\ normalizeXmlWorkingTime(tasks[i].workingTime) = NoSchedule )
                => RecordsOf(i) = {}

\* C19: in runOnce, once all tasks of the pool have finished, the list has
\* exactly one "not found" record for each company with no picked candidate,
\* exactly one mismatch record for each found company whose comparison is
\* not ok, and no record for any other company.
OneRecordPerCompany ==
    (script = "runOnce" /\ pc = "done") =>
        \A i \in 1..Len(tasks) :
            IF outcome[i] = <<>>
            THEN /\ Cardinality(RecordsOf(i)) = 1
                 /\ \A k \in RecordsOf(i) : IsNotFound(diffs[k])
            ELSE IF ~resOf(tasks[i], outcome[i][1], toleranceMin).ok
                 THEN /\ Cardinality(RecordsOf(i)) = 1
                      /\ \A k \in RecordsOf(i) : ~IsNotFound(diffs[k])
                 ELSE RecordsOf(i) = {}

\* C19 witness: two companies whose tasks finished in the reverse order, one
\* not found and one with a mismatch: two records, the second company first.
RecordsOutOfOrderWitness ==
    /\ script = "runOnce"
    /\ pc = "done"
    /\ Len(tasks) = 2
    /\ Len(diffs) = 2
    /\ diffs[1].companyId = 2
    /\ diffs[2].companyId = 1
    /\ IsNotFound(diffs[1])
    /\ ~IsNotFound(diffs[2])

\* The tasks whose external lookup is in flight.
InFlight == { i \in 1..Len(tasks) : taskState[i] = "lookup" }

\* C20: at most 3 checkRecentChanges / fetchBranchChangeHistory calls, and at
\* most YMAPS_CONCURRENCY company checks of runOnce, are in flight at any
\* point.
LookupsWithinPool ==
    /\ script \in {"checkRecent", "fetchChanges"} =>
          Cardinality(InFlight) <= CheckConcurrency
    /\ script = "runOnce" =>
          /\ concurrency \in ConcurrencyChoices
          /\ Cardinality(InFlight) <= concurrency

\* C20 witness: three branch checks in flight while a fourth branch waits.
PoolFullWitness ==
    /\ script = "checkRecent"
    /\ Cardinality(InFlight) = CheckConcurrency
    /\ \E i \in 1..Len(tasks) : taskState[i] = "queued"

\* C23 as stated: when checkAllRecentChanges completes, the persisted
\* branches file equals the array in memory, which holds the update of every
\* processed branch, under every interleaving of the concurrent tasks.
FileEqualsBranchesAsStated ==
    (script = "checkRecent" /\ pc = "done") => branchesFile = memBranches

FoundChanged ==
    { i \in 1..Len(tasks) : outcome[i] # <<>> /\ flagOf(outcome[i][1]) }

\* C27 as stated: the branches reported as changed are exactly the branches
\* checked in this run and found to have a change in the last 24 hours, and
\* their number is the withRecentChanges counter, whatever flags earlier
\* runs left in the branches file.
ChangedListMatchesCounterAsStated ==
    (script = "checkRecent" /\ pc = "done") =>
        /\ { report.changedBranches[k].id :
                k \in 1..Len(report.changedBranches) } = FoundChanged
        /\ Len(report.changedBranches) = report.withRecentChanges

(***************************************************************************)
(* Address normalisation: normalize and unifyAbbr of match-addresses.      *)
(* The letters of the texts are Cyrillic, one token each; "yo" is the      *)
(* letter that normalize replaces by "e".  \w and \b of the regular        *)
(* expressions know the digits, the underscore and the Latin letters only. *)
(* normalize is a sequence of assignments to its local s; the model takes  *)
(* them one at a time, in the order of the code.                           *)
(***************************************************************************)

MaxAddressParts == 3

\* s has pat at position i.
StartsAt(s, i, pat) ==
    /\ i + Len(pat) - 1 <= Len(s)
    /\ \A k \in 1..Len(pat) : s[i + k - 1] = pat[k]

\* unifyAbbr: "bul." -> "bulvar", "prosp.", "pr-kt", "pr-t", "pr." ->
\* "prospekt", "sh." -> "shosse", "pl." -> "ploshchad", "per." -> "pereulok",
\* "ul." -> "ulitsa", "ul " -> "ulitsa ".
Abbreviations == <<
    << <<"b","u","l",".">>,
       <<"b","u","l","soft","v","a","r">> >>,
    << <<"p","r","o","s","p",".">>,
       <<"p","r","o","s","p","e","k","t">> >>,
    << <<"p","r","-","k","t">>,
       <<"p","r","o","s","p","e","k","t">> >>,
    << <<"p","r","-","t">>,
       <<"p","r","o","s","p","e","k","t">> >>,
    << <<"p","r",".">>,
       <<"p","r","o","s","p","e","k","t">> >>,
    << <<"sh",".">>,
       <<"sh","o","s","s","e">> >>,
    << <<"p","l",".">>,
       <<"p","l","o","sch","a","d","soft">> >>,
    << <<"p","e","r",".">>,
       <<"p","e","r","e","u","l","o","k">> >>,
    << <<"u","l",".">>,
       <<"u","l","i","ts","a">> >>,
    << <<"u","l"," ">>,
       <<"u","l","i","ts","a"," ">> >> >>

\* The heads removed with /^head,?\s*/: "rossiya", "severo-zapadnyj
\* federalnyj okrug", "leningradskaya oblast", "sankt-peterburg", "spb".
Heads == <<
    <<"r","o","s","s","i","ya">>,
    <<"s","e","v","e","r","o","-","z","a","p","a","d","n","y","j"," ","f","e","d","e","r","a","l","soft","n","y","j"," ","o","k","r","u","g">>,
    <<"l","e","n","i","n","g","r","a","d","s","k","a","ya"," ","o","b","l","a","s","t","soft">>,
    <<"s","a","n","k","t","-","p","e","t","e","r","b","u","r","g">>,
    <<"s","p","b">> >>

\* s.replace(/^head,?\s*/g, "")
DropHead(s, head) ==
    IF ~StartsAt(s, 1, head) THEN s
    ELSE IF Len(head) < Len(s) /\ s[Len(head) + 1] = ","
         THEN SubSeq(s, Len(head) + 2 + SpacesFrom(s, Len(head) + 2), Len(s))
         ELSE SubSeq(s, Len(head) + 1 + SpacesFrom(s, Len(head) + 1), Len(s))

\* s.replace(/^head\s*g[.,]?\s*/g, "") for the head "sankt-peterburg"
DropCityHead(s, head) ==
    LET g == Len(head) + 1 + SpacesFrom(s, Len(head) + 1)
    IN  IF ~(StartsAt(s, 1, head) /\ g <= Len(s) /\ s[g] = "g") THEN s
        ELSE IF g < Len(s) /\ s[g + 1] \in {".", ","}
             THEN SubSeq(s, g + 2 + SpacesFrom(s, g + 2), Len(s))
             ELSE SubSeq(s, g + 1 + SpacesFrom(s, g + 1), Len(s))

\* \w: the digits, the underscore and the Latin letters; of the Latin letters
\* the texts have "q", "w" and "x".
IsWordChar(c) == IsDigit(c) \/ c \in {"_", "q", "w", "x"}

\* \b before position p of s.
Boundary(s, p) ==
    (p - 1 \in 1..Len(s) /\ IsWordChar(s[p - 1]))
        # (p \in 1..Len(s) /\ IsWordChar(s[p]))

TRASH == <<
    <<"s","e","v","e","r","o","-","z","a","p","a","d","n","y","j"," ","f","e","d","e","r","a","l","soft","n","y","j"," ","o","k","r","u","g">>,
    <<"l","e","n","i","n","g","r","a","d","s","k","a","ya"," ","o","b","l","a","s","t","soft">>,
    <<"s","a","n","k","t","-","p","e","t","e","r","b","u","r","g">>,
    <<"s","a","n","k","t"," ","p","e","t","e","r","b","u","r","g">>,
    <<"r","o","s","s","i","ya">>,
    <<"s","p","b">>,
    <<"g","o","r","o","d","s","k","o","j"," ","p","o","s","yo","l","o","k">>,
    <<"g","o","r","o","d","s","k","o","e"," ","p","o","s","e","l","e","n","i","e">>,
    <<"s","e","l","soft","s","k","o","e"," ","p","o","s","e","l","e","n","i","e">>,
    <<"m","u","n","i","ts","i","p","a","l","soft","n","y","j"," ","o","k","r","u","g">>,
    <<"t","e","r","r","i","t","o","r","i","ya">>,
    <<"m","i","k","r","o","r","a","j","o","n">>,
    <<"r","a","j","o","n">> >>

\* The number of digits of s from position i on (\d*).
RECURSIVE DigitsFrom(_, _)
DigitsFrom(s, i) ==
    IF i <= Len(s) /\ IsDigit(s[i]) THEN 1 + DigitsFrom(s, i + 1) ELSE 0

\* The number of characters of [\w-] of s from position i on.
RECURSIVE WordRunFrom(_, _)
WordRunFrom(s, i) ==
    IF i <= Len(s) /\ (IsWordChar(s[i]) \/ s[i] = "-")
    THEN 1 + WordRunFrom(s, i + 1) ELSE 0

\* The match of /(\d+)\s*k\s*(\d+)/ (spaced) or /(\d+)k(\d+)/ at position i:
\* its length and the lengths of its two numbers, or length 0.
BuildingAt(s, i, spaced) ==
    LET d1 == DigitsFrom(s, i)
        k  == i + d1 + (IF spaced THEN SpacesFrom(s, i + d1) ELSE 0)
        n2 == k + 1 + (IF spaced THEN SpacesFrom(s, k + 1) ELSE 0)
    IN  IF d1 > 0 /\ k <= Len(s) /\ s[k] = "k" /\ DigitsFrom(s, n2) > 0
        THEN [len |-> n2 + DigitsFrom(s, n2) - i, first |-> d1,
              second |-> DigitsFrom(s, n2)]
        ELSE [len |-> 0, first |-> 0, second |-> 0]

\* The match of /,\s*(\d+),\s*(\d+)(?!\d)/ at position i: its length and
\* the positions of its two numbers, or length 0.
NumberPairAt(s, i) ==
    LET n1 == i + 1 + SpacesFrom(s, i + 1)
        c  == n1 + DigitsFrom(s, n1)
        n2 == c + 1 + SpacesFrom(s, c + 1)
    IN  IF /\ s[i] = "," /\ DigitsFrom(s, n1) > 0
           /\ c <= Len(s) /\ s[c] = "," /\ DigitsFrom(s, n2) > 0
        THEN [len |-> n2 + DigitsFrom(s, n2) - i, first |-> n1,
              second |-> n2]
        ELSE [len |-> 0, first |-> 0, second |-> 0]

\* "korpus", "korp." -> "korp"; "stroenie", "str." -> "str"; "lit." -> "lit".
Qualifiers == <<
    << <<"k","o","r","p","u","s">>,
       <<"k","o","r","p">> >>,
    << <<"k","o","r","p",".">>,
       <<"k","o","r","p">> >>,
    << <<"s","t","r","o","e","n","i","e">>,
       <<"s","t","r">> >>,
    << <<"s","t","r",".">>,
       <<"s","t","r">> >>,
    << <<"l","i","t",".">>,
       <<"l","i","t">> >> >>

\* (korp|str|lit|pom|of)
QualifierKeys == <<
    <<"k","o","r","p">>,
    <<"s","t","r">>,
    <<"l","i","t">>,
    <<"p","o","m">>,
    <<"o","f">> >>

\* The length of the keyword of (korp|str|lit|pom|of) at position i, or 0.
KeyLenAt(s, i) ==
    IF \E k \in 1..Len(QualifierKeys) : StartsAt(s, i, QualifierKeys[k])
    THEN Len(QualifierKeys[CHOOSE k \in 1..Len(QualifierKeys) :
                              StartsAt(s, i, QualifierKeys[k])])
    ELSE 0

\* The length of the match of /,?\s*(korp|str|lit|pom|of)\s*[\w-]+/ at
\* position i, or 0.
QualifierLenAt(s, i) ==
    LET key  == i + (IF s[i] = "," THEN 1 ELSE 0)
                  + SpacesFrom(s, i + (IF s[i] = "," THEN 1 ELSE 0))
        word == key + KeyLenAt(s, key) + SpacesFrom(s, key + KeyLenAt(s, key))
    IN  IF KeyLenAt(s, key) > 0 /\ WordRunFrom(s, word) > 0
        THEN word + WordRunFrom(s, word) - i
        ELSE 0

\* The statements of normalize, in the order of the code: the first
\* assignment, the replacements of unifyAbbr, the six heads, the words of
\* TRASH, the building patterns, the qualifiers, commas and white space.
Steps ==
    << [kind |-> "lower"] >>
    \o [ k \in 1..Len(Abbreviations) |->
           [kind |-> "literal", pat |-> Abbreviations[k][1],
            rep |-> Abbreviations[k][2]] ]
    \o << [kind |-> "head", pat |-> Heads[1]],
          [kind |-> "head", pat |-> Heads[2]],
          [kind |-> "head", pat |-> Heads[3]],
          [kind |-> "cityHead", pat |-> Heads[4]],
          [kind |-> "head", pat |-> Heads[4]],
          [kind |-> "head", pat |-> Heads[5]] >>
    \o [ k \in 1..Len(TRASH) |-> [kind |-> "word", pat |-> TRASH[k]] ]
    \o << [kind |-> "building", spaced |-> TRUE],
          [kind |-> "building", spaced |-> FALSE],
          [kind |-> "pair"] >>
    \o [ k \in 1..Len(Qualifiers) |->
           [kind |-> "literal", pat |-> Qualifiers[k][1],
            rep |-> Qualifiers[k][2]] ]
    \o << [kind |-> "qualifier"], [kind |-> "comma"], [kind |-> "spaces"],
          [kind |-> "strip"] >>

\* The length of the match of the pattern of a replacing statement at
\* position i of s, or 0.
MatchLenAt(step, s, i) ==
    CASE step.kind = "literal" ->
            IF StartsAt(s, i, step.pat) THEN Len(step.pat) ELSE 0
      [] step.kind = "word" ->
            IF /\ StartsAt(s, i, step.pat)
               /\ Boundary(s, i) /\ Boundary(s, i + Len(step.pat))
            THEN Len(step.pat) ELSE 0
      [] step.kind = "building" -> BuildingAt(s, i, step.spaced).len
      [] step.kind = "pair" -> NumberPairAt(s, i).len
      [] step.kind = "qualifier" -> QualifierLenAt(s, i)
      [] step.kind = "comma" ->
            IF i + SpacesFrom(s, i) <= Len(s) /\ s[i + SpacesFrom(s, i)] = ","
            THEN SpacesFrom(s, i) + 1 + SpacesFrom(s, i + SpacesFrom(s, i) + 1)
            ELSE 0
      [] step.kind = "spaces" -> SpacesFrom(s, i)

\* What the statement puts in place of its match at position i of s:
\* "$1 korp $2", ", $1, korp $2", ", ", " ", the literal, or nothing.
ReplacementAt(step, s, i) ==
    CASE step.kind = "literal" -> step.rep
      [] step.kind = "building" ->
            SubSeq(s, i, i + BuildingAt(s, i, step.spaced).first - 1)
              \o <<" ","k","o","r","p"," ">>
              \o SubSeq(s, i + BuildingAt(s, i, step.spaced).len
                               - BuildingAt(s, i, step.spaced).second,
                           i + BuildingAt(s, i, step.spaced).len - 1)
      [] step.kind = "pair" ->
            <<",", " ">>
              \o SubSeq(s, NumberPairAt(s, i).first,
                           NumberPairAt(s, i).first
                               + DigitsFrom(s, NumberPairAt(s, i).first) - 1)
              \o <<","," ","k","o","r","p"," ">>
              \o SubSeq(s, NumberPairAt(s, i).second,
                           i + NumberPairAt(s, i).len - 1)
      [] step.kind = "comma" -> <<",", " ">>
      [] step.kind = "spaces" -> <<" ">>
      [] OTHER -> <<>>

\* s.replace(/.../g, ...) from position i on: the leftmost match, its
\* replacement, and the same for what follows the match.
RECURSIVE ReplaceMatches(_, _, _)
ReplaceMatches(step, s, i) ==
    LET starts == { j \in i..Len(s) : MatchLenAt(step, s, j) > 0 }
        first == CHOOSE j \in starts : \A k \in starts : j <= k
    IN  IF starts = {} THEN SubSeq(s, i, Len(s))
        ELSE SubSeq(s, i, first - 1)
               \o ReplacementAt(step, s, first)
               \o ReplaceMatches(step, s, first + MatchLenAt(step, s, first))

\* s.replace(/^,/, "").replace(/,$/, "")
StripCommas(s) ==
    SubSeq(s, IF Len(s) > 0 /\ s[1] = "," THEN 2 ELSE 1,
              IF Len(s) > 1 /\ s[Len(s)] = "," THEN Len(s) - 1 ELSE Len(s))

\* The value of s after one statement of normalize.
applyStep(step, s) ==
    CASE step.kind = "lower" ->
            Trim(ReplaceMatches([kind |-> "literal", pat |-> <<"yo">>,
                                 rep |-> <<"e">>], ToLowerCase(s), 1))
      [] step.kind = "head" -> DropHead(s, step.pat)
      [] step.kind = "cityHead" -> DropCityHead(s, step.pat)
      [] step.kind = "strip" -> Trim(StripCommas(s))
      [] OTHER -> ReplaceMatches(step, s, 1)

\* The pieces raw addresses are put together from: "Rossiya, ", "ul. A, 23",
\* ", 2", " korp. 1", "35k1", ",", " ", "Sankt-Peterburg g., ".
AddressParts == <<
    <<"R","o","s","s","i","ya",","," ">>,
    <<"u","l","."," ","A",","," ","2","3">>,
    <<","," ","2">>,
    <<" ","k","o","r","p","."," ","1">>,
    <<"3","5","k","1">>,
    <<",">>,
    <<" ">>,
    <<"S","a","n","k","t","-","P","e","t","e","r","b","u","r","g"," ","g",".",","," ">> >>

InitNormalize ==
    /\ rawAddress \in TextsUpTo(AddressParts, MaxAddressParts)
    /\ sLocal = <<>>
    /\ stepNo = 0
    /\ normalized = <<>>
    /\ normalizedAgain = <<>>
    /\ DiffIdle
    /\ CategoryIdle
    /\ AnalyzeIdle
    /\ MatchIdle
    /\ ScheduleIdle
    /\ RunIdle
    /\ PickIdle
    /\ CheckIdle
    /\ CacheIdle
    /\ AuthIdle
    /\ BrowserIdle
    /\ ChunksIdle
    /\ pc = "input"

\* normalize(str) is called, first with the raw address and then with its
\* own result: if (!str) return ""; otherwise s is str.
CallNormalize ==
    \/ /\ pc = "input"
       /\ IF rawAddress = <<>>
          THEN /\ pc' = "normalized"
               /\ UNCHANGED <<sLocal, stepNo>>
          ELSE /\ pc' = "first"
               /\ sLocal' = rawAddress
               /\ stepNo' = 1
       /\ UNCHANGED <<rawAddress, normalized, normalizedAgain,
                      diffVars, categoryVars, analyzeVars, matchVars,
                      scheduleVars, runVars, pickVars, checkVars,
                   cacheVars, authVars, browserVars, chunkVars>>
    \/ /\ pc = "normalized"
       /\ IF normalized = <<>>
          THEN /\ pc' = "done"
               /\ UNCHANGED <<sLocal, stepNo>>
          ELSE /\ pc' = "second"
               /\ sLocal' = normalized
               /\ stepNo' = 1
       /\ UNCHANGED <<rawAddress, normalized, normalizedAgain,
                      diffVars, categoryVars, analyzeVars, matchVars,
                      scheduleVars, runVars, pickVars, checkVars,
                   cacheVars, authVars, browserVars, chunkVars>>

\* The next statement of normalize assigns s.
NormalizeStep ==
    /\ pc \in {"first", "second"}
    /\ stepNo <= Len(Steps)
    /\ sLocal' = applyStep(Steps[stepNo], sLocal)
    /\ stepNo' = stepNo + 1
    /\ UNCHANGED <<rawAddress, normalized, normalizedAgain, pc,
                   diffVars, categoryVars, analyzeVars, matchVars,
                   scheduleVars, runVars, pickVars, checkVars,
                   cacheVars, authVars, browserVars, chunkVars>>

\* return s
ReturnNormalized ==
    /\ pc \in {"first", "second"}
    /\ stepNo > Len(Steps)
    /\ IF pc = "first"
       THEN normalized' = sLocal /\ pc' = "normalized"
                /\ UNCHANGED normalizedAgain
       ELSE normalizedAgain' = sLocal /\ pc' = "done"
                /\ UNCHANGED normalized
    /\ sLocal' = <<>>
    /\ stepNo' = 0
    /\ UNCHANGED <<rawAddress,
                   diffVars, categoryVars, analyzeVars, matchVars,
                   scheduleVars, runVars, pickVars, checkVars,
                   cacheVars, authVars, browserVars, chunkVars>>

NextNormalize == CallNormalize \/ NormalizeStep \/ ReturnNormalized

SpecNormalize == InitNormalize /\ [][NextNormalize]_vars

\* C12 as stated: normalisation is idempotent, normalize(normalize(a)) =
\* normalize(a) for every raw address a.
NormalizeIdempotentAsStated ==
    pc = "done" => normalizedAgain = normalized

\* ---------------------------------------------------------------------
\* pickBest (src/src/yandex.ts), as runOnce calls it on the result of
\* searchCandidates.  A candidate is [id, lat, lon, distance]; positions are
\* points of a line through the company's coordinates, in metres, so that
\* getDistance is the absolute difference.

MaxFound == 3

MAX_DISTANCE_METERS == 80

\* Where the search may place a candidate, in metres from the company.
Positions == {0, 80, 81, 300}

\* The company's own coordinates c.lat, c.lon.
CompanyAt == 0

getDistance(a, b) == IF a >= b THEN a - b ELSE b - a

\* toCandidate: distance is measured from the coordinates of the search.
toCandidate(id, at, origin) ==
    [id |-> id, at |-> at, distance |-> getDistance(origin, at)]

\* Array.prototype.sort((a, b) => a.distance - b.distance): stable.
RECURSIVE SortByDistance(_)
SortByDistance(cs) ==
    IF cs = <<>> THEN <<>>
    ELSE LET least == CHOOSE i \in 1..Len(cs) :
                 \A k \in 1..Len(cs) :
                     \/ cs[i].distance < cs[k].distance
                     \/ cs[i].distance = cs[k].distance /\ i <= k
         IN <<cs[least]>> \o
            SortByDistance([k \in 1..(Len(cs) - 1) |->
                                IF k < least THEN cs[k] ELSE cs[k + 1]])

\* sorted.find(c => c.distance <= env.MAX_DISTANCE_METERS): its index, 0 if
\* there is none.
FindWithin(sorted) ==
    IF \E i \in 1..Len(sorted) : sorted[i].distance <= MAX_DISTANCE_METERS
    THEN CHOOSE i \in 1..Len(sorted) :
             /\ sorted[i].distance <= MAX_DISTANCE_METERS
             /\ \A k \in 1..(i - 1) : sorted[k].distance > MAX_DISTANCE_METERS
    ELSE 0

\* sorted.forEach(cand => cand.distance = getDistance({lat, lon}, cand))
Recomputed(sorted, origin) ==
    [i \in 1..Len(sorted) |->
        [sorted[i] EXCEPT !.distance = getDistance(origin, sorted[i].at)]]

\* pickBest(candidates, lat, lon): <<>> is undefined, otherwise <<candidate>>.
pickBest(cs, origin) ==
    IF cs = <<>> THEN <<>>
    ELSE IF FindWithin(SortByDistance(cs)) # 0
         THEN <<SortByDistance(cs)[FindWithin(SortByDistance(cs))]>>
         ELSE <<SortByDistance(Recomputed(SortByDistance(cs), origin))[1]>>

InitPick ==
    /\ candidates = <<>>
    /\ pickedBest = <<>>
    /\ DiffIdle
    /\ CategoryIdle
    /\ AnalyzeIdle
    /\ MatchIdle
    /\ ScheduleIdle
    /\ RunIdle
    /\ NormalizeIdle
    /\ CheckIdle
    /\ CacheIdle
    /\ AuthIdle
    /\ BrowserIdle
    /\ ChunksIdle
    /\ pc = "search"

\* const cands = await searchCandidates({lat: c.lat, lon: c.lon, ...}): up
\* to MaxFound features in any order, mapped by toCandidate and sorted by
\* distance.
SearchCandidates ==
    /\ pc = "search"
    /\ \E n \in 0..MaxFound : \E fs \in [1..n -> Positions] :
          candidates' = SortByDistance(
              [i \in 1..n |-> toCandidate(i, fs[i], CompanyAt)])
    /\ pc' = "pick"
    /\ UNCHANGED <<pickedBest,
                   diffVars, categoryVars, analyzeVars, matchVars,
                   scheduleVars, runVars, normalizeVars, checkVars,
                   cacheVars, authVars, browserVars, chunkVars>>

\* const best = pickBest(cands, c.lat, c.lon); if (!best) the company is
\* reported as not found, otherwise its hours are compared.
PickBest ==
    /\ pc = "pick"
    /\ pickedBest' = pickBest(candidates, CompanyAt)
    /\ pc' = IF pickBest(candidates, CompanyAt) = <<>> THEN "notFound" ELSE "found"
    /\ UNCHANGED <<candidates,
                   diffVars, categoryVars, analyzeVars, matchVars,
                   scheduleVars, runVars, normalizeVars, checkVars,
                   cacheVars, authVars, browserVars, chunkVars>>

NextPick == SearchCandidates \/ PickBest

SpecPick == InitPick /\ [][NextPick]_vars

\* C21 as stated: pickBest never returns a candidate farther than
\* MAX_DISTANCE_METERS from the company's coordinates; when no candidate is
\* within that distance the company is treated as not found.
PickBestWithinLimitAsStated ==
    /\ pc = "found" =>
           getDistance(CompanyAt, pickedBest[1].at) <= MAX_DISTANCE_METERS
    /\ pc \in {"found", "notFound"} =>
           ((\A i \in 1..Len(candidates) :
                 getDistance(CompanyAt, candidates[i].at) > MAX_DISTANCE_METERS)
            => pc = "notFound")

(***************************************************************************)
(* ensureYandexAuth: concurrent callers share one session check/login      *)
(* procedure through authEnsuringPromise.  A call runs up to its first     *)
(* await in one step; the procedure and the resumption of each waiting     *)
(* call are steps of their own.                                            *)
(***************************************************************************)

MaxCalls == 3

\* Mutant: a call does not look at authEnsuringPromise.
entryNotJoining(validated, force, promise) ==
    IF validated /\ ~force THEN "true" ELSE "start"

\* ensureYandexAuth up to its first await: return true, return the promise
\* in flight, or start a procedure.
entry(validated, force, promise) ==
    IF validated /\ ~force THEN "true"
    ELSE IF promise # 0 THEN "join" ELSE "start"

\* Some call has already returned true.
SomeReturnedTrue(cs) ==
    \E i \in 1..Len(cs) : cs[i].stage = "returned" /\ cs[i].value

\* The record of a call: the procedure it waits for (0 for none), whether
\* it created it, and whether a call had returned true when it was made.
callOf(force, on, creator, stage, cs) ==
    [force |-> force, on |-> on, creator |-> creator, stage |-> stage,
     value |-> (stage = "returned"), sawTrue |-> SomeReturnedTrue(cs)]

InitAuth ==
    /\ authValidated = FALSE
    /\ authEnsuringPromise = 0
    /\ procs = <<>>
    /\ calls = <<>>
    /\ forceReauth \in BOOLEAN
    /\ DiffIdle
    /\ CategoryIdle
    /\ AnalyzeIdle
    /\ MatchIdle
    /\ ScheduleIdle
    /\ RunIdle
    /\ NormalizeIdle
    /\ PickIdle
    /\ CheckIdle
    /\ CacheIdle
    /\ BrowserIdle
    /\ ChunksIdle
    /\ pc = "serving"

\* A call of ensureYandexAuth({forceRecheck}), up to its first await.  With
\* FORCE_REAUTH the flag authValidated is cleared first.
EnsureYandexAuth ==
    /\ pc = "serving"
    /\ Len(calls) < MaxCalls
    /\ authValidated' = (authValidated /\ ~forceReauth)
    /\ \E force \in BOOLEAN :
          \/ /\ entry(authValidated /\ ~forceReauth, force, authEnsuringPromise) = "true"
             /\ calls' = Append(calls, callOf(force, 0, FALSE, "returned", calls))
             /\ UNCHANGED <<authEnsuringPromise, procs>>
          \/ /\ entry(authValidated /\ ~forceReauth, force, authEnsuringPromise) = "join"
             /\ calls' = Append(calls,
                    callOf(force, authEnsuringPromise, FALSE, "waiting", calls))
             /\ UNCHANGED <<authEnsuringPromise, procs>>
          \/ /\ entry(authValidated /\ ~forceReauth, force, authEnsuringPromise) = "start"
             /\ procs' = Append(procs,
                    [force |-> force, stage |-> "initBrowser", value |-> FALSE])
             /\ authEnsuringPromise' = Len(procs) + 1
             /\ calls' = Append(calls,
                    callOf(force, Len(procs) + 1, TRUE, "waiting", calls))
    /\ UNCHANGED <<forceReauth, pc,
                   diffVars, categoryVars, analyzeVars, matchVars, scheduleVars,
                   runVars, normalizeVars, pickVars, checkVars, cacheVars,
                   browserVars, chunkVars>>

\* The procedure goes on after one of its awaits: initBrowser, checkSession
\* (skipped with forceRecheck) or loginToYandex.
ProcedureStep ==
    /\ pc = "serving"
    /\ \E k \in 1..Len(procs) :
          \/ /\ procs[k].stage = "initBrowser"
             /\ procs' = [procs EXCEPT ![k].stage =
                            IF procs[k].force THEN "login" ELSE "checkSession"]
             /\ UNCHANGED authValidated
          \/ /\ procs[k].stage = "checkSession"
             /\ \E valid \in BOOLEAN :
                   IF valid
                   THEN /\ authValidated' = TRUE
                        /\ procs' = [procs EXCEPT ![k].stage = "settled",
                                                  ![k].value = TRUE]
                   ELSE /\ procs' = [procs EXCEPT ![k].stage = "login"]
                        /\ UNCHANGED authValidated
          \/ /\ procs[k].stage = "login"
             /\ \E loggedIn \in BOOLEAN :
                   /\ authValidated' = loggedIn
                   /\ procs' = [procs EXCEPT ![k].stage = "settled",
                                             ![k].value = loggedIn]
    /\ UNCHANGED <<authEnsuringPromise, calls, forceReauth, pc,
                   diffVars, categoryVars, analyzeVars, matchVars, scheduleVars,
                   runVars, normalizeVars, pickVars, checkVars, cacheVars,
                   browserVars, chunkVars>>

\* A waiting call resumes with the result of its procedure; the call that
\* created the procedure clears authEnsuringPromise in its finally block.
AuthResumed ==
    /\ pc = "serving"
    /\ \E c \in 1..Len(calls) :
          /\ calls[c].stage = "waiting"
          /\ procs[calls[c].on].stage = "settled"
          /\ calls' = [calls EXCEPT ![c].stage = "returned",
                                    ![c].value = procs[calls[c].on].value]
          /\ authEnsuringPromise' =
                IF calls[c].creator THEN 0 ELSE authEnsuringPromise
    /\ UNCHANGED <<authValidated, procs, forceReauth, pc,
                   diffVars, categoryVars, analyzeVars, matchVars, scheduleVars,
                   runVars, normalizeVars, pickVars, checkVars, cacheVars,
                   browserVars, chunkVars>>

NextAuth == EnsureYandexAuth \/ ProcedureStep \/ AuthResumed

SpecAuth == InitAuth /\ [][NextAuth]_vars

\* The procedures in progress.
InProgress == { k \in 1..Len(procs) : procs[k].stage # "settled" }

\* At most one procedure is in progress, and a call that found one in
\* flight started none and returns that procedure's result.
OneProcedureShared ==
    /\ Cardinality(InProgress) <= 1
    /\ \A c \in 1..Len(calls) :
          (calls[c].on # 0 /\ calls[c].stage = "returned") =>
              calls[c].value = procs[calls[c].on].value
    /\ Cardinality({ c \in 1..Len(calls) : calls[c].creator }) = Len(procs)

\* The call was made without forceRecheck after a call had returned true,
\* and it returned true at once without a procedure.
ReturnsTrueAtOnce(c) ==
    /\ calls[c].stage = "returned"
    /\ calls[c].value
    /\ calls[c].on = 0

\* C25 as stated: ensureYandexAuth is single-flight, and once a call has
\* returned true every later call without forceRecheck returns true without
\* starting a procedure.
AuthSingleFlightAsStated ==
    /\ OneProcedureShared
    /\ \A c \in 1..Len(calls) :
          (~calls[c].force /\ calls[c].sawTrue) => ReturnsTrueAtOnce(c)

\* C25 amended: ensureYandexAuth is single-flight, and once a call has
\* returned true every later call without forceRecheck returns true without
\* starting a procedure, provided that no call asked for forceRecheck before
\* it and FORCE_REAUTH is not set: a forced recheck whose login fails, and
\* FORCE_REAUTH, clear authValidated.
AuthSingleFlight ==
    /\ OneProcedureShared
    /\ \A c \in 1..Len(calls) :
          ( /\ ~forceReauth
            /\ \A k \in 1..c : ~calls[k].force
            /\ calls[c].sawTrue ) => ReturnsTrueAtOnce(c)

\* C25 witness: the second call joined the procedure of the first and got
\* its result, true; the third call, made after that, returned true at once
\* and only one procedure was ever started.
AuthSharedWitness ==
    /\ ~forceReauth
    /\ Len(calls) = 3
    /\ Len(procs) = 1
    /\ calls[1].creator /\ calls[1].stage = "returned" /\ calls[1].value
    /\ calls[2].on = 1 /\ ~calls[2].creator
    /\ calls[2].stage = "returned" /\ calls[2].value
    /\ ~calls[3].force /\ calls[3].sawTrue /\ ReturnsTrueAtOnce(3)

(***************************************************************************)
(* initBrowser, getContext and closeBrowser under concurrent page          *)
(* requests.  The i-th call of getContext launches browser i when it       *)
(* launches one; a context is named by the browser it was created on.      *)
(***************************************************************************)

MaxPages == 2

IdlePage == [stage |-> "idle", on |-> 0, got |-> 0]

\* The state before the first launch and after closeBrowser: both module
\* variables are null.
InitBrowser ==
    /\ browser = 0
    /\ context = 0
    /\ live = {}
    /\ \E n \in 1..MaxPages : pages = [i \in 1..n |-> IdlePage]
    /\ closing = NotClosing
    /\ DiffIdle
    /\ CategoryIdle
    /\ AnalyzeIdle
    /\ MatchIdle
    /\ ScheduleIdle
    /\ RunIdle
    /\ NormalizeIdle
    /\ PickIdle
    /\ CheckIdle
    /\ CacheIdle
    /\ AuthIdle
    /\ ChunksIdle
    /\ pc = "serving"

\* getContext() up to its first await: it returns context when there is
\* one; otherwise it awaits initBrowser(), which returns at once when
\* browser is set and calls chromium.launch when it is not.
GetContext ==
    /\ pc = "serving"
    /\ \E i \in 1..Len(pages) :
          /\ pages[i].stage = "idle"
          /\ IF context # 0
             THEN /\ pages' = [pages EXCEPT ![i].stage = "returned",
                                            ![i].got = context]
                  /\ UNCHANGED live
             ELSE IF browser # 0
                  THEN /\ pages' = [pages EXCEPT ![i].stage = "resuming"]
                       /\ UNCHANGED live
                  ELSE /\ pages' = [pages EXCEPT ![i].stage = "launching"]
                       /\ live' = live \cup {i}
    /\ UNCHANGED <<browser, context, closing, pc,
                   diffVars, categoryVars, analyzeVars, matchVars, scheduleVars,
                   runVars, normalizeVars, pickVars, checkVars, cacheVars,
                   authVars, chunkVars>>

\* browser = await chromium.launch(...); then initBrowser awaits fs.access.
LaunchResolved ==
    /\ pc = "serving"
    /\ \E i \in 1..Len(pages) :
          /\ pages[i].stage = "launching"
          /\ browser' = i
          /\ pages' = [pages EXCEPT ![i].stage = "access"]
    /\ UNCHANGED <<context, live, closing, pc,
                   diffVars, categoryVars, analyzeVars, matchVars, scheduleVars,
                   runVars, normalizeVars, pickVars, checkVars, cacheVars,
                   authVars, chunkVars>>

\* The file checks are over; initBrowser calls browser.newContext(...) on the
\* module variable, which throws when closeBrowser has set it to null.
AccessResolved ==
    /\ pc = "serving"
    /\ \E i \in 1..Len(pages) :
          /\ pages[i].stage = "access"
          /\ pages' = IF browser = 0
                      THEN [pages EXCEPT ![i].stage = "threw"]
                      ELSE [pages EXCEPT ![i].stage = "newContext",
                                         ![i].on = browser]
    /\ UNCHANGED <<browser, context, live, closing, pc,
                   diffVars, categoryVars, analyzeVars, matchVars, scheduleVars,
                   runVars, normalizeVars, pickVars, checkVars, cacheVars,
                   authVars, chunkVars>>

\* context = await browser.newContext(...); initBrowser returns.
ContextResolved ==
    /\ pc = "serving"
    /\ \E i \in 1..Len(pages) :
          /\ pages[i].stage = "newContext"
          /\ context' = pages[i].on
          /\ pages' = [pages EXCEPT ![i].stage = "resuming"]
    /\ UNCHANGED <<browser, live, closing, pc,
                   diffVars, categoryVars, analyzeVars, matchVars, scheduleVars,
                   runVars, normalizeVars, pickVars, checkVars, cacheVars,
                   authVars, chunkVars>>

\* getContext resumes after await initBrowser(): return context!
ContextReturned ==
    /\ pc = "serving"
    /\ \E i \in 1..Len(pages) :
          /\ pages[i].stage = "resuming"
          /\ pages' = [pages EXCEPT ![i].stage = "returned", ![i].got = context]
    /\ UNCHANGED <<browser, context, live, closing, pc,
                   diffVars, categoryVars, analyzeVars, matchVars, scheduleVars,
                   runVars, normalizeVars, pickVars, checkVars, cacheVars,
                   authVars, chunkVars>>

\* closeBrowser() up to its first await: context.close() when there is a
\* context, otherwise browser.close() when there is a browser.
CloseBrowser ==
    /\ pc = "serving"
    /\ closing.stage = "idle"
    /\ context # 0 \/ browser # 0
    /\ IF context # 0
       THEN /\ closing' = [stage |-> "context", id |-> context]
            /\ UNCHANGED live
       ELSE /\ closing' = [stage |-> "browser", id |-> browser]
            /\ live' = live \ {browser}
    /\ UNCHANGED <<browser, context, pages, pc,
                   diffVars, categoryVars, analyzeVars, matchVars, scheduleVars,
                   runVars, normalizeVars, pickVars, checkVars, cacheVars,
                   authVars, chunkVars>>

\* await context.close() is over: context = null; then browser.close() is
\* called when there is a browser.
ContextClosed ==
    /\ pc = "serving"
    /\ closing.stage = "context"
    /\ context' = 0
    /\ IF browser # 0
       THEN /\ closing' = [stage |-> "browser", id |-> browser]
            /\ live' = live \ {browser}
       ELSE /\ closing' = NotClosing
            /\ UNCHANGED live
    /\ UNCHANGED <<browser, pages, pc,
                   diffVars, categoryVars, analyzeVars, matchVars, scheduleVars,
                   runVars, normalizeVars, pickVars, checkVars, cacheVars,
                   authVars, chunkVars>>

\* await browser.close() is over: browser = null.
BrowserClosed ==
    /\ pc = "serving"
    /\ closing.stage = "browser"
    /\ browser' = 0
    /\ closing' = NotClosing
    /\ UNCHANGED <<context, live, pages, pc,
                   diffVars, categoryVars, analyzeVars, matchVars, scheduleVars,
                   runVars, normalizeVars, pickVars, checkVars, cacheVars,
                   authVars, chunkVars>>

NextBrowser ==
    \/ GetContext
    \/ LaunchResolved
    \/ AccessResolved
    \/ ContextResolved
    \/ ContextReturned
    \/ CloseBrowser
    \/ ContextClosed
    \/ BrowserClosed

SpecBrowser == InitBrowser /\ [][NextBrowser]_vars

\* C26 as stated: under any interleaving of concurrent getContext calls at
\* most one browser is launched (no two launched browsers are open at a
\* time) and getContext never returns a null context.
BrowserInitSafeAsStated ==
    /\ Cardinality(live) <= 1
    /\ \A i \in 1..Len(pages) : pages[i].stage = "returned" => pages[i].got # 0

(***************************************************************************)
(* sendChunks: telegram.ts.  A text is a sequence of characters; only the  *)
(* length of the prefix enters the splitting loop and the length checks.   *)
(***************************************************************************)

MaxBody == 4

TELEGRAM_LIMIT == 4096

BodyChars == {"a", " ", "\n"}

\* prefix.length around the value that makes effectiveLimit zero.
PrefixLengths == {4043, 4044, 4045, 4046, 4047, 4048}

\* chunks cannot hold more than MaxBody entries when every iteration
\* consumes a character; longer arrays are recorded up to this length.
MaxChunks == MaxBody + 1

\* const headerLength = prefix.length + 50;
\* const effectiveLimit = TELEGRAM_LIMIT - headerLength;
effectiveLimit(len) == TELEGRAM_LIMIT - (len + 50)

\* String.prototype.lastIndexOf("\n", fromIndex), 0-based; fromIndex is
\* clamped to 0..length; -1 when there is no occurrence at or before it.
lastIndexOf(str, fromIndex) ==
    LET from == IF fromIndex < 0 THEN 0
                ELSE IF fromIndex > Len(str) THEN Len(str) ELSE fromIndex
        found == { p \in 0..from : p < Len(str) /\ str[p + 1] = "\n" }
    IN  IF found = {} THEN -1
        ELSE CHOOSE p \in found : \A q \in found : q <= p

\* An index argument of String.prototype.slice: negative counts from the end.
sliceIndex(x, len) ==
    IF x < 0 THEN (IF len + x < 0 THEN 0 ELSE len + x)
    ELSE IF x > len THEN len ELSE x

\* String.prototype.slice(start, end)
slice(str, start, end) ==
    SubSeq(str, sliceIndex(start, Len(str)) + 1, sliceIndex(end, Len(str)))

\* String.prototype.trimStart
trimStart(str) ==
    LET kept == { i \in 1..Len(str) : str[i] \notin {" ", "\n"} }
    IN  IF kept = {} THEN <<>>
        ELSE SubSeq(str, CHOOSE i \in kept : \A k \in kept : i <= k, Len(str))

\* const cut = idx > 0 ? idx : effectiveLimit, idx = rest.lastIndexOf("\n", limit)
cutOf(str, limit) ==
    IF lastIndexOf(str, limit) > 0 THEN lastIndexOf(str, limit) ELSE limit

\* chunks.push(chunk)
pushed(cs, chunk) == IF Len(cs) < MaxChunks THEN Append(cs, chunk) ELSE cs

\* The length of what message i (0-based) of n passes to sendMessage: head,
\* "\n" and the chunk, cut to TELEGRAM_LIMIT - 20 plus "\n...(obrezano)" when
\* longer than the limit.  The head of a later message is the prefix and
\* " (chast' i+1/n)", 12 characters while n < 10.
messageLength(len, i, chunk) ==
    LET head == IF i = 0 THEN len ELSE len + 12
        message == head + 1 + Len(chunk)
    IN  IF message > TELEGRAM_LIMIT THEN (TELEGRAM_LIMIT - 20) + 14 ELSE message

InitChunks ==
    /\ prefixLength \in PrefixLengths
    /\ rest \in SeqUpTo(BodyChars, MaxBody)
    /\ chunks = <<>>
    /\ sent = <<>>
    /\ DiffIdle
    /\ CategoryIdle
    /\ AnalyzeIdle
    /\ MatchIdle
    /\ ScheduleIdle
    /\ RunIdle
    /\ NormalizeIdle
    /\ PickIdle
    /\ CheckIdle
    /\ CacheIdle
    /\ AuthIdle
    /\ BrowserIdle
    /\ pc = "splitting"

\* while (rest.length > effectiveLimit): the condition holds, the body is next.
LoopTest ==
    /\ pc = "splitting"
    /\ Len(rest) > effectiveLimit(prefixLength)
    /\ pc' = "cutting"
    /\ UNCHANGED <<prefixLength, rest, chunks, sent,
                   diffVars, categoryVars, analyzeVars, matchVars, scheduleVars,
                   runVars, normalizeVars, pickVars, checkVars, cacheVars,
                   authVars, browserVars>>

\* The body of the loop; control returns to the loop condition.
SplitStep ==
    /\ pc = "cutting"
    /\ pc' = "splitting"
    /\ chunks' = pushed(chunks, slice(rest, 0, cutOf(rest, effectiveLimit(prefixLength))))
    /\ rest' = trimStart(slice(rest, cutOf(rest, effectiveLimit(prefixLength)), Len(rest)))
    /\ UNCHANGED <<prefixLength, sent,
                   diffVars, categoryVars, analyzeVars, matchVars, scheduleVars,
                   runVars, normalizeVars, pickVars, checkVars, cacheVars,
                   authVars, browserVars>>

\* The loop condition fails; if (rest.length > 0) chunks.push(rest).
LoopExit ==
    /\ pc = "splitting"
    /\ Len(rest) <= effectiveLimit(prefixLength)
    /\ chunks' = IF Len(rest) > 0 THEN pushed(chunks, rest) ELSE chunks
    /\ pc' = "sending"
    /\ UNCHANGED <<prefixLength, rest, sent,
                   diffVars, categoryVars, analyzeVars, matchVars, scheduleVars,
                   runVars, normalizeVars, pickVars, checkVars, cacheVars,
                   authVars, browserVars>>

\* One iteration of for (let i = 0; i < chunks.length; i++): await sendMessage.
SendChunk ==
    /\ pc = "sending"
    /\ Len(sent) < Len(chunks)
    /\ sent' = Append(sent, messageLength(prefixLength, Len(sent), chunks[Len(sent) + 1]))
    /\ UNCHANGED <<prefixLength, rest, chunks, pc,
                   diffVars, categoryVars, analyzeVars, matchVars, scheduleVars,
                   runVars, normalizeVars, pickVars, checkVars, cacheVars,
                   authVars, browserVars>>

\* i = chunks.length: sendChunks returns.
ChunksSent ==
    /\ pc = "sending"
    /\ Len(sent) = Len(chunks)
    /\ pc' = "sent"
    /\ UNCHANGED <<prefixLength, rest, chunks, sent,
                   diffVars, categoryVars, analyzeVars, matchVars, scheduleVars,
                   runVars, normalizeVars, pickVars, checkVars, cacheVars,
                   authVars, browserVars>>

NextChunks ==
    \/ LoopTest
    \/ SplitStep
    \/ LoopExit
    \/ SendChunk
    \/ ChunksSent

SpecChunks == InitChunks /\ [][NextChunks]_vars

\* sendChunks is one call that runs to its end: the loop is synchronous and
\* every awaited sendMessage settles.
FairSpecChunks == SpecChunks /\ WF_vars(NextChunks)

\* C30 as stated: sendChunks terminates for every prefix and body, also when
\* effectiveLimit is zero or negative: every call reaches its return.
SendChunksTerminatesAsStated == <>(pc = "sent")
====
